---- MODULE Spec2Model ----
(***************************************************************************)
(* A model of goiardi's ACL Checker (package acl): permission evaluation,  *)
(* grant reconciliation, rename propagation and the two-tier locking       *)
(* around the casbin enforcer and its on-disk policy file.                 *)
(*                                                                         *)
(* Strings that the code takes prefixes of (policy subjects) are modelled  *)
(* as sequences of tokens: "role##ops" is <<"role##", "ops">>, "alice" is  *)
(* <<"alice">>, "denyall##groups" is <<"denyall##", "groups">>.            *)
(***************************************************************************)
EXTENDS Integers, Sequences, FiniteSets, TLC

VARIABLES
    disk,           \* [org -> policy]: each organization's policy file
    mem,            \* [org -> policy]: each Checker's enforcer model (c.e)
    assoc,          \* the datastore's association records <<user, org>>
    usingDB,        \* config.UsingDB(): the server runs on a database
    last,           \* the last completed Checker call: arguments and result
    gate,           \* ACLCoordinator: "free" or the thread filling the slot
    wlock,          \* [org -> "free" or the thread holding c.m for writing]
    rlock,          \* [org -> set of threads holding c.m for reading]
    inTransaction,  \* [org -> BOOLEAN]: Checker.inTransaction
    thr,            \* [thread -> its call in progress and position in it]
    calls           \* number of calls completed

vars == <<disk, mem, assoc, usingDB, last, gate, wlock, rlock, inTransaction, thr, calls>>

----------------------------------------------------------------------------
(* Bounds of the model *)

\* largest number of tuples in an initial policy of the evaluation model
MaxSeed == 3

\* largest number of tuples in an initial policy of the mutation model
MaxEditSeed == 2

\* number of calls made one after another in the mutation model
MaxCalls == 2

----------------------------------------------------------------------------
(* Tuple layout and the fixed strings of the package *)

\* group, subkind, kind, name, perm, effect (iota from 0; sequences start at 1)
condGroupPos == 1
condSubkindPos == 2
condKindPos == 3
condNamePos == 4
condPermPos == 5
condEffectPos == 6

enforceEffect == "allow"
denyEffect == "deny"
addPerm == "add"
removePerm == "remove"
DefaultUser == "pivotal"
DefaultName == "$$default$$"
RolePrefix == "role##"
DenyPrefix == "denyall##"

Orgs == {"org1", "org2"}
TheOrg == "org1"

EmptyPolicy == [p |-> {}, g |-> {}]

----------------------------------------------------------------------------
(* Strings with prefixes *)

\* strings.HasPrefix(s, prefix) for the two prefixes the code tests
HasPrefix(s, prefix) == Len(s) >= 1 /\ s[1] = prefix

\* strings.TrimPrefix(s, prefix)
TrimPrefix(s, prefix) == IF HasPrefix(s, prefix) THEN Tail(s) ELSE s

\* a plain name as a string
Str(n) == <<n>>

----------------------------------------------------------------------------
(* Items, actors, groups *)

Item(kind, type, name) == [kind |-> kind, type |-> type, name |-> name]
ContainerKind(item) == item.kind
ContainerType(item) == item.type
GetName(x) == x.name

User(n) == [mtype |-> "user", name |-> n, org |-> TheOrg]
Client(n, o) == [mtype |-> "client", name |-> n, org |-> o]
Group(n) == [mtype |-> "group", name |-> n, org |-> TheOrg]

IsUser(m) == m.mtype = "user"
OrgName(m) == m.org

\* Member.ACLName: an actor's name, or role##<groupname> for a group
ACLName(m) == IF m.mtype = "group" THEN <<RolePrefix, m.name>> ELSE Str(m.name)

----------------------------------------------------------------------------
(* The rule store (casbin enforcer over a policy) *)

\* subjects reachable from s over the role edges g (s itself included)
RECURSIVE Reach(_, _, _)
Reach(g, seen, k) ==
    LET next == seen \cup {e[2] : e \in {x \in g : x[1] \in seen}} IN
    IF k = 0 \/ next = seen THEN seen ELSE Reach(g, next, k - 1)

HasLink(g, sub, role) == role \in Reach(g, {sub}, Cardinality(g))

\* Enforce: the request matches a tuple field by field, the subject through
\* the role edges
Enforce(pol, req) ==
    \E t \in pol.p :
        /\ HasLink(pol.g, req[condGroupPos], t[condGroupPos])
        /\ \A i \in condSubkindPos..condEffectPos : t[i] = req[i]

GetFilteredPolicy(pol, fieldIndex, value) == {t \in pol.p : t[fieldIndex] = value}

AddPolicy(pol, t) == [pol EXCEPT !.p = @ \cup {t}]
RemovePolicy(pol, t) == [pol EXCEPT !.p = @ \ {t}]
AddPolicies(pol, ts) == [pol EXCEPT !.p = @ \cup ts]
RemovePolicies(pol, ts) == [pol EXCEPT !.p = @ \ ts]

\* LoadPolicy: the model becomes the file's content; a failed reload leaves
\* the cleared model
LoadPolicy(file, ok) == IF ok THEN file ELSE EmptyPolicy

----------------------------------------------------------------------------
(* Building requests *)

buildEnforcingSlice(item, member, perm) ==
    <<ACLName(member), ContainerType(item), ContainerKind(item), GetName(item),
      perm, enforceEffect>>

buildDenySlice(item, perm) ==
    <<<<DenyPrefix, "groups">>, ContainerType(item), ContainerKind(item),
      GetName(item), perm, enforceEffect>>

general(e) ==
    LET g == IF e[condSubkindPos] = "containers" /\ e[condKindPos] = "containers"
             THEN [e EXCEPT ![condSubkindPos] = e[condNamePos]]
             ELSE e
    IN [g EXCEPT ![condNamePos] = DefaultName]

----------------------------------------------------------------------------
(* CheckItemPerm *)

\* mutant: the item's tuples of any subject pin the decision (the filter by
\* item name instead of by the doer's ACL name)
testForAnyPol_ByName(pol, item, doer, perm) ==
    LET fi == GetFilteredPolicy(pol, condNamePos, GetName(item)) IN
    IF \E p \in fi : /\ ContainerKind(item) = p[condKindPos]
                     /\ ContainerType(item) = p[condSubkindPos]
    THEN TRUE
    ELSE IF ContainerKind(item) = "groups"
         THEN Enforce(pol, buildDenySlice(item, perm))
         ELSE FALSE

\* mutant: only the doer's tuples for the perm asked pin the decision
testForAnyPol_WithPerm(pol, item, doer, perm) ==
    LET fi == GetFilteredPolicy(pol, condGroupPos, ACLName(doer)) IN
    IF \E p \in fi : /\ ContainerKind(item) = p[condKindPos]
                     /\ ContainerType(item) = p[condSubkindPos]
                     /\ GetName(item) = p[condNamePos]
                     /\ perm = p[condPermPos]
    THEN TRUE
    ELSE IF ContainerKind(item) = "groups"
         THEN Enforce(pol, buildDenySlice(item, perm))
         ELSE FALSE

\* mutant: the denyall##groups sentinel is not looked at
testForAnyPol_NoDenyAll(pol, item, doer, perm) ==
    LET fi == GetFilteredPolicy(pol, condGroupPos, ACLName(doer)) IN
    \E p \in fi : /\ ContainerKind(item) = p[condKindPos]
                  /\ ContainerType(item) = p[condSubkindPos]
                  /\ GetName(item) = p[condNamePos]

\* mutant: on an item of kind groups the sentinel is evaluated first and its
\* result is what testForAnyPol returns, whatever tuples the doer holds
testForAnyPol_SentinelFirst(pol, item, doer, perm) ==
    LET fi == GetFilteredPolicy(pol, condGroupPos, ACLName(doer)) IN
    IF ContainerKind(item) = "groups"
    THEN Enforce(pol, buildDenySlice(item, perm))
    ELSE \E p \in fi : /\ ContainerKind(item) = p[condKindPos]
                       /\ ContainerType(item) = p[condSubkindPos]
                       /\ GetName(item) = p[condNamePos]

testForAnyPol(pol, item, doer, perm) ==
    LET fi == GetFilteredPolicy(pol, condGroupPos, ACLName(doer)) IN
    IF \E p \in fi : /\ ContainerKind(item) = p[condKindPos]
                     /\ ContainerType(item) = p[condSubkindPos]
                     /\ GetName(item) = p[condNamePos]
    THEN TRUE
    ELSE IF ContainerKind(item) = "groups"
         THEN Enforce(pol, buildDenySlice(item, perm))
         ELSE FALSE

Result(allowed, err) == [allowed |-> allowed, err |-> err]

\* mutant: with no tuple of the item's type in the policy every perm is valid
isPermValid_EmptyOk(pol, item, perm) ==
    LET fPass == GetFilteredPolicy(pol, condSubkindPos, ContainerType(item))
        validPerms == {p[condPermPos] : p \in {q \in fPass : q[condKindPos] = ContainerKind(item)}}
    IN fPass = {} \/ perm \in validPerms

isPermValid(pol, item, perm) ==
    LET fPass == GetFilteredPolicy(pol, condSubkindPos, ContainerType(item))
        validPerms == {p[condPermPos] : p \in {q \in fPass : q[condKindPos] = ContainerKind(item)}}
    IN perm \in validPerms

\* "nil" or the error; with a database a user's association is not looked up
testAssociation(as, doer, org) ==
    IF IsUser(doer)
    THEN IF usingDB THEN "nil"
         ELSE IF <<GetName(doer), org>> \in as THEN "nil" ELSE "NotAssociated"
    ELSE IF OrgName(doer) # org THEN "NotAssociated" ELSE "nil"

\* mutant: the association is tested before the policy is consulted
CheckItemPermLoaded_AssocFirst(pol, as, org, item, doer, perm) ==
    IF testAssociation(as, doer, org) # "nil" THEN Result(FALSE, "NotAssociated")
    ELSE IF \/ Enforce(pol, buildEnforcingSlice(item, doer, perm))
            \/ /\ ~testForAnyPol(pol, item, doer, perm)
               /\ Enforce(pol, general(buildEnforcingSlice(item, doer, perm)))
         THEN Result(TRUE, "nil")
    ELSE IF ~isPermValid(pol, item, perm) THEN Result(FALSE, "InvalidPermission")
    ELSE Result(FALSE, "nil")

\* the body of CheckItemPerm after a successful reload
CheckItemPermLoaded(pol, as, org, item, doer, perm) ==
    LET specific == buildEnforcingSlice(item, doer, perm)
        chkSucceeded ==
            IF Enforce(pol, specific) THEN TRUE
            ELSE IF ~testForAnyPol(pol, item, doer, perm)
                 THEN Enforce(pol, general(specific))
                 ELSE FALSE
    IN IF chkSucceeded THEN Result(TRUE, "nil")
       ELSE IF ~isPermValid(pol, item, perm) THEN Result(FALSE, "InvalidPermission")
       ELSE IF testAssociation(as, doer, org) # "nil" THEN Result(FALSE, "NotAssociated")
       ELSE Result(FALSE, "nil")

----------------------------------------------------------------------------
(* The objects the model's calls are made on *)

node1 == Item("containers", "nodes", "node1")
node2 == Item("containers", "nodes", "node2")
adminsItem == Item("groups", "groups", "admins")
box == Item("containers", "containers", "box")

alice == User("alice")
web == Client("web", "org1")
rogue == Client("rogue", "org2")

ops == Group("ops")
admins == Group("admins")

Threads == {"t1", "t2"}

\* the ACL names of the items' (kind, type) default rule and of the sentinel
IsSentinel(t) == t[condGroupPos] = <<DenyPrefix, "groups">>

\* the tuples of a policy on an item: same name, kind and type
OnItem(pol, item) ==
    {t \in pol.p : /\ t[condNamePos] = GetName(item)
                   /\ t[condKindPos] = ContainerKind(item)
                   /\ t[condSubkindPos] = ContainerType(item)}

\* all subsets of S with at most n elements
RECURSIVE UpTo(_, _)
UpTo(S, n) ==
    IF n = 0 THEN {{}}
    ELSE LET smaller == UpTo(S, n - 1) IN
         smaller \cup {s \cup {x} : s \in smaller, x \in S}

----------------------------------------------------------------------------
(* State shared by every specification: no call in progress *)

Idle == [pc |-> "idle"]

LocksFree ==
    /\ gate = "free"
    /\ wlock = [o \in Orgs |-> "free"]
    /\ rlock = [o \in Orgs |-> {}]

InitLocks ==
    /\ LocksFree
    /\ inTransaction = [o \in Orgs |-> FALSE]
    /\ thr = [t \in Threads |-> Idle]

concVars == <<gate, wlock, rlock, inTransaction, thr>>

----------------------------------------------------------------------------
(* Evaluation model: CheckItemPerm as one step on a policy drawn in Init *)

CheckSubjects == {ACLName(alice), ACLName(admins)}
CheckItems == {node1, adminsItem, box}
CheckDoers == {alice, web, rogue}
CheckPerms == {"read", "bogus"}

SeedTuples ==
    {buildEnforcingSlice(it, m, p) :
        it \in {node1, adminsItem}, m \in {alice, admins}, p \in {"read", "update"}}
    \cup {buildEnforcingSlice(box, alice, "read")}
    \cup {general(buildEnforcingSlice(it, m, "read")) :
        it \in CheckItems, m \in {alice, admins}}
    \cup {buildDenySlice(adminsItem, "read")}

SeedRoles ==
    { {},
      {<<ACLName(alice), ACLName(ops)>>},
      {<<ACLName(alice), ACLName(ops)>>, <<ACLName(ops), ACLName(admins)>>},
      {<<ACLName(rogue), ACLName(admins)>>} }

SeedAssoc == { {}, {<<"alice", TheOrg>>} }

\* a call a thread is about to make
Call(op, args) == [pc |-> "call", op |-> op, args |-> args]

CheckCalls ==
    {Call("CheckItemPerm", [item |-> item, doer |-> doer, perm |-> perm, loadOk |-> loadOk]) :
        item \in CheckItems, doer \in CheckDoers, perm \in CheckPerms, loadOk \in BOOLEAN}

InitCheck ==
    /\ \E ts \in UpTo(SeedTuples, MaxSeed), g \in SeedRoles :
          disk = [o \in Orgs |-> IF o = TheOrg THEN [p |-> ts, g |-> g] ELSE EmptyPolicy]
    /\ mem = disk
    /\ assoc \in SeedAssoc
    /\ usingDB \in BOOLEAN
    /\ last = [op |-> "none"]
    /\ LocksFree
    /\ inTransaction = [o \in Orgs |-> FALSE]
    /\ \E c \in CheckCalls : thr = [t \in Threads |-> IF t = "t1" THEN c ELSE Idle]
    /\ calls = 0

\* CheckItemPerm(item, doer, perm) on TheOrg's Checker, start to return: gate,
\* read lock, reload, evaluation, release
CheckItemPerm(t) ==
    LET a == thr[t].args IN
    /\ thr[t].pc = "call" /\ thr[t].op = "CheckItemPerm"
    /\ LocksFree
    /\ mem' = [mem EXCEPT ![TheOrg] = LoadPolicy(disk[TheOrg], a.loadOk)]
    /\ last' = [op |-> "CheckItemPerm", item |-> a.item, doer |-> a.doer, perm |-> a.perm,
                loaded |-> a.loadOk, pre |-> disk[TheOrg],
                res |-> IF a.loadOk
                        THEN CheckItemPermLoaded(mem'[TheOrg], assoc, TheOrg,
                                                 a.item, a.doer, a.perm)
                        ELSE Result(FALSE, "PolicyLoadError")]
    /\ thr' = [thr EXCEPT ![t] = Idle]
    /\ calls' = calls + 1
    /\ UNCHANGED <<disk, assoc, usingDB, gate, wlock, rlock, inTransaction>>

NextCheck == \E t \in Threads : CheckItemPerm(t)

SpecCheck == InitCheck /\ [][NextCheck]_vars

----------------------------------------------------------------------------
(* EditFromJSON *)

\* the actors and groups of the organization that actor.GetActor and group.Get
\* resolve; any other name fails to resolve
KnownUsers == {"alice", "bob"}
KnownClients == {"web"}
KnownGroups == {"ops", "admins"}

GetActorFound(name) == name \in KnownUsers \cup KnownClients
GetActor(name) == IF name \in KnownUsers THEN User(name) ELSE Client(name, TheOrg)
GroupFound(name) == name \in KnownGroups

\* util.StringPresentInSlice, the slice one of plain names
StringPresentInSlice(str, slice) == \E i \in 1..Len(slice) : Str(slice[i]) = str

\* mutant: the first pass does not compare the perm
EditRemovals_AnyPerm(pol, item, perm, newActors, newGroups) ==
    {p \in GetFilteredPolicy(pol, condNamePos, GetName(item)) :
        /\ p[condKindPos] = ContainerKind(item)
        /\ p[condSubkindPos] = ContainerType(item)
        /\ LET subj == p[condGroupPos] IN
           IF HasPrefix(subj, DenyPrefix) THEN FALSE
           ELSE IF HasPrefix(subj, RolePrefix)
                THEN ~StringPresentInSlice(TrimPrefix(subj, RolePrefix), newGroups)
                ELSE ~StringPresentInSlice(subj, newActors)}

\* the tuples the first pass of EditFromJSON removes: the item's tuples of the
\* perm whose subject is not in the new lists, the sentinel left aside
EditRemovals(pol, item, perm, newActors, newGroups) ==
    {p \in GetFilteredPolicy(pol, condNamePos, GetName(item)) :
        /\ p[condKindPos] = ContainerKind(item)
        /\ p[condSubkindPos] = ContainerType(item)
        /\ p[condPermPos] = perm
        /\ LET subj == p[condGroupPos] IN
           IF HasPrefix(subj, DenyPrefix) THEN FALSE
           ELSE IF HasPrefix(subj, RolePrefix)
                THEN ~StringPresentInSlice(TrimPrefix(subj, RolePrefix), newGroups)
                ELSE ~StringPresentInSlice(subj, newActors)}

\* the loop over newActors from index i: the policy it leaves and its error
\* mutant: a name that resolves to no actor is skipped
RECURSIVE AddActors_SkipUnknown(_, _, _, _, _)
AddActors_SkipUnknown(pol, item, perm, newActors, i) ==
    IF i > Len(newActors) THEN [pol |-> pol, err |-> "nil"]
    ELSE IF ~GetActorFound(newActors[i])
         THEN AddActors_SkipUnknown(pol, item, perm, newActors, i + 1)
    ELSE AddActors_SkipUnknown(
             AddPolicy(pol, buildEnforcingSlice(item, GetActor(newActors[i]), perm)),
             item, perm, newActors, i + 1)

RECURSIVE AddActors(_, _, _, _, _)
AddActors(pol, item, perm, newActors, i) ==
    IF i > Len(newActors) THEN [pol |-> pol, err |-> "nil"]
    ELSE IF ~GetActorFound(newActors[i]) THEN [pol |-> pol, err |-> "BadRequest"]
    ELSE AddActors(AddPolicy(pol, buildEnforcingSlice(item, GetActor(newActors[i]), perm)),
                   item, perm, newActors, i + 1)

\* the loop over newGroups from index i
RECURSIVE AddGroups(_, _, _, _, _)
AddGroups(pol, item, perm, newGroups, i) ==
    IF i > Len(newGroups) THEN [pol |-> pol, err |-> "nil"]
    ELSE IF ~GroupFound(newGroups[i]) THEN [pol |-> pol, err |-> "BadRequest"]
    ELSE AddGroups(AddPolicy(pol, buildEnforcingSlice(item, Group(newGroups[i]), perm)),
                   item, perm, newGroups, i + 1)

\* mutant: with no groups given the sentinel is flipped, not set
EditGroups_Toggle(pol, item, perm, newGroups) ==
    LET denyallp == buildDenySlice(item, perm) IN
    IF Len(newGroups) > 0
    THEN LET r == AddGroups(pol, item, perm, newGroups, 1) IN
         IF r.err # "nil" THEN r
         ELSE IF ContainerKind(item) = "groups"
              THEN [pol |-> RemovePolicy(r.pol, denyallp), err |-> "nil"]
              ELSE r
    ELSE IF ContainerKind(item) = "groups"
         THEN [pol |-> IF denyallp \in pol.p THEN RemovePolicy(pol, denyallp)
                       ELSE AddPolicy(pol, denyallp),
               err |-> "nil"]
         ELSE [pol |-> pol, err |-> "nil"]

\* mutant: the sentinel is handled whatever the item's kind
EditGroups_AnyKind(pol, item, perm, newGroups) ==
    LET denyallp == buildDenySlice(item, perm) IN
    IF Len(newGroups) > 0
    THEN LET r == AddGroups(pol, item, perm, newGroups, 1) IN
         IF r.err # "nil" THEN r
         ELSE [pol |-> RemovePolicy(r.pol, denyallp), err |-> "nil"]
    ELSE [pol |-> AddPolicy(pol, denyallp), err |-> "nil"]

\* the groups branch and the sentinel: the policy it leaves and its error
EditGroups(pol, item, perm, newGroups) ==
    LET denyallp == buildDenySlice(item, perm) IN
    IF Len(newGroups) > 0
    THEN LET r == AddGroups(pol, item, perm, newGroups, 1) IN
         IF r.err # "nil" THEN r
         ELSE IF ContainerKind(item) = "groups"
              THEN [pol |-> RemovePolicy(r.pol, denyallp), err |-> "nil"]
              ELSE r
    ELSE IF ContainerKind(item) = "groups"
         THEN [pol |-> AddPolicy(pol, denyallp), err |-> "nil"]
         ELSE [pol |-> pol, err |-> "nil"]

Outcome(m, d, err) == [mem |-> m, disk |-> d, err |-> err]

\* SavePolicy at the end of a call: the file becomes the model, unless the
\* save fails
Save(m, d, io) ==
    IF io = "saveFail" THEN Outcome(m, d, "PolicySaveError") ELSE Outcome(m, m, "nil")

\* EditFromJSON(item, perm, data) from the enforcer model m and the file d:
\* the model and the file it leaves, and its error ("nil": none).
\* data.shape tells how the JSON is formed; io is what the file system does.
\* The conversion v.(string) of a list element that is no string panics.
EditFromJSONRun(m, d, item, perm, data, io) ==
    IF data.shape = "notObject" THEN Outcome(m, d, "MalformedACLPayload")
    ELSE IF data.shape = "missingPerm" THEN Outcome(m, d, "MalformedACLPayload")
    ELSE IF data.shape = "permNotObject" THEN Outcome(m, d, "MalformedACLPayload")
    ELSE IF io = "loadFail" THEN Outcome(LoadPolicy(d, FALSE), d, "PolicyLoadError")
    ELSE LET loaded == LoadPolicy(d, TRUE) IN
         IF data.shape = "actorsNotList" \/ data.shape = "groupsNotList"
         THEN Outcome(loaded, d, "MalformedACLPayload")
         ELSE IF data.shape = "elementNotString" THEN Outcome(loaded, d, "panic")
         ELSE LET removed == RemovePolicies(loaded,
                                EditRemovals(loaded, item, perm, data.actors, data.groups))
                  acted == AddActors(removed, item, perm, data.actors, 1)
              IN IF acted.err # "nil" THEN Outcome(acted.pol, d, acted.err)
                 ELSE LET grouped == EditGroups(acted.pol, item, perm, data.groups) IN
                      IF grouped.err # "nil" THEN Outcome(grouped.pol, d, grouped.err)
                      ELSE Save(grouped.pol, d, io)

----------------------------------------------------------------------------
(* GetItemPolicies and RenameItemACL *)

\* GetItemPolicies reloads (its error is dropped) and filters by name, kind
\* and type: the model it leaves and the tuples it returns
GetItemPolicies(d, itemName, itemKind, itemType, loadOk) ==
    LET m == LoadPolicy(d, loadOk) IN
    [mem |-> m,
     policies |-> {p \in GetFilteredPolicy(m, condNamePos, itemName) :
                     p[condKindPos] = itemKind /\ p[condSubkindPos] = itemType}]

\* mutant: the copies keep the old name
Renamed_KeepName(oldPolicies, item) == oldPolicies

\* the copies RenameItemACL adds: the old tuples under the item's name
Renamed(oldPolicies, item) ==
    {[p EXCEPT ![condNamePos] = GetName(item)] : p \in oldPolicies}

RenameItemACLRun(m, d, item, oldName, io) ==
    IF io = "loadFail" THEN Outcome(LoadPolicy(d, FALSE), d, "PolicyLoadError")
    ELSE LET got == GetItemPolicies(d, oldName, ContainerKind(item), ContainerType(item),
                                    io # "innerLoadFail")
             oldPolicies == got.policies
         IN IF oldPolicies = {} THEN Outcome(got.mem, d, "nil")
            ELSE LET added == AddPolicies(got.mem, Renamed(oldPolicies, item))
                     removed == RemovePolicies(added, oldPolicies)
                 IN Save(removed, d, io)

----------------------------------------------------------------------------
(* EditItemPerm *)

\* aclhelper.DefaultACLs, the permission whitelist
DefaultACLs == <<"create", "read", "update", "delete", "grant">>

checkValidPerm(perm) == \E i \in 1..Len(DefaultACLs) : DefaultACLs[i] = perm

\* mutant: the action is not looked at, the tuple is added
policyFunc_AlwaysAdd(pol, action, t) == AddPolicy(pol, t)

\* policyFunc: c.e.AddPolicy for add, c.e.RemovePolicy for remove
policyFunc(pol, action, t) ==
    IF action = addPerm THEN AddPolicy(pol, t) ELSE RemovePolicy(pol, t)

\* mutant: an entry outside the whitelist is skipped and the loop goes on
RECURSIVE ApplyPerms_SkipInvalid(_, _, _, _, _, _)
ApplyPerms_SkipInvalid(pol, item, member, perms, action, i) ==
    IF i > Len(perms) THEN [pol |-> pol, err |-> "nil"]
    ELSE IF ~checkValidPerm(perms[i])
         THEN ApplyPerms_SkipInvalid(pol, item, member, perms, action, i + 1)
         ELSE ApplyPerms_SkipInvalid(
                  policyFunc(pol, action, buildEnforcingSlice(item, member, perms[i])),
                  item, member, perms, action, i + 1)

\* the loop over perms from entry i: it stops with an error at the first
\* entry outside the whitelist, the entries before it already applied
RECURSIVE ApplyPerms(_, _, _, _, _, _)
ApplyPerms(pol, item, member, perms, action, i) ==
    IF i > Len(perms) THEN [pol |-> pol, err |-> "nil"]
    ELSE IF ~checkValidPerm(perms[i]) THEN [pol |-> pol, err |-> "InvalidEditAction"]
         ELSE ApplyPerms(policyFunc(pol, action,
                                    buildEnforcingSlice(item, member, perms[i])),
                         item, member, perms, action, i + 1)

\* EditItemPerm(item, member, perms, action) from the enforcer model m and the
\* file d: the model and the file it leaves, and its error
EditItemPermRun(m, d, item, member, perms, action, io) ==
    IF io = "loadFail" THEN Outcome(LoadPolicy(d, FALSE), d, "PolicyLoadError")
    ELSE LET loaded == LoadPolicy(d, TRUE) IN
         IF action \notin {addPerm, removePerm} THEN Outcome(loaded, d, "InvalidEditAction")
         ELSE IF Len(perms) = 0 THEN Outcome(loaded, d, "InvalidEditAction")
         ELSE LET r == ApplyPerms(loaded, item, member, perms, action, 1) IN
              IF r.err # "nil" THEN Outcome(r.pol, d, r.err)
              ELSE Save(r.pol, d, io)

----------------------------------------------------------------------------
(* DeleteItemACL *)

\* DeleteItemACL(item) from the enforcer model m and the file d: the model and
\* the file it leaves, its error and the boolean it returns (rmok: the result
\* of the last removal, false when nothing was removed or on an error)
DeleteItemACLRun(m, d, item, io) ==
    IF io = "loadFail"
    THEN [mem |-> LoadPolicy(d, FALSE), disk |-> d, err |-> "PolicyLoadError", res |-> FALSE]
    ELSE LET got == GetItemPolicies(d, GetName(item), ContainerKind(item),
                                    ContainerType(item), io # "innerLoadFail")
             policies == got.policies
             rmok == policies # {}
             saved == Save(RemovePolicies(got.mem, policies), d, io)
         IN [mem |-> saved.mem, disk |-> saved.disk, err |-> saved.err,
             res |-> IF saved.err = "nil" THEN rmok ELSE FALSE]

----------------------------------------------------------------------------
(* Mutation model: whole calls, one after another, on a policy drawn in Init *)

bob == User("bob")

EditSeedTuples ==
    {buildEnforcingSlice(node1, m, "read") : m \in {alice, bob, ops, admins}}
    \cup {buildEnforcingSlice(node1, alice, "update"),
          buildEnforcingSlice(node2, alice, "read"),
          buildEnforcingSlice(node2, bob, "update"),
          buildEnforcingSlice(adminsItem, alice, "read"),
          buildEnforcingSlice(adminsItem, admins, "read"),
          buildDenySlice(adminsItem, "read"),
          buildDenySlice(adminsItem, "update"),
          general(buildEnforcingSlice(node1, admins, "read"))}

EditRoles == {<<ACLName(alice), ACLName(ops)>>}

InitEdit ==
    /\ \E ts \in UpTo(EditSeedTuples, MaxEditSeed) :
          disk = [o \in Orgs |-> IF o = TheOrg THEN [p |-> ts, g |-> EditRoles]
                                 ELSE EmptyPolicy]
    /\ mem = disk
    /\ assoc = {<<"alice", TheOrg>>}
    /\ usingDB = FALSE
    /\ last = [op |-> "none"]
    /\ InitLocks
    /\ calls = 0

EditItems == {node1, adminsItem}
EditPerms == {"read"}

OkPayload(actors, groups) == [shape |-> "ok", actors |-> actors, groups |-> groups]

\* the ways a payload is malformed: not an object, no key for the perm, the
\* perm's entry not an object, actors or groups not a list, a list element
\* not a string
MalformedShapes ==
    {"notObject", "missingPerm", "permNotObject", "actorsNotList", "groupsNotList",
     "elementNotString"}

EditPayloads ==
    {OkPayload(a, g) : a \in {<<>>, <<"alice">>, <<"bob">>}, g \in {<<>>, <<"ops">>}}
    \cup {OkPayload(<<"alice", "ghost">>, <<>>), OkPayload(<<"bob">>, <<"ops", "nogroup">>)}
    \cup {[shape |-> sh] : sh \in MalformedShapes}

\* the EditFromJSON calls made: every payload with the file system working,
\* one payload with the reload or the save failing
EditCalls ==
    {[item |-> item, perm |-> perm, data |-> data, io |-> "ok"] :
        item \in EditItems, perm \in EditPerms, data \in EditPayloads}
    \cup {[item |-> item, perm |-> perm, data |-> OkPayload(<<"bob">>, <<"ops">>), io |-> io] :
        item \in EditItems, perm \in EditPerms, io \in {"loadFail", "saveFail"}}

\* the RenameItemACL calls made (the item carries the new name)
RenameCalls ==
    {[item |-> item, oldName |-> oldName, io |-> "ok"] :
        item \in {node1, node2}, oldName \in {"node1", "node2"}}
    \cup {[item |-> node2, oldName |-> "node1", io |-> io] :
        io \in {"loadFail", "innerLoadFail", "saveFail"}}

\* the EditItemPerm calls made: every member, perms list and action with the
\* file system working, one call with the reload or the save failing
EditItemPermCalls ==
    {[item |-> node1, member |-> mb, perms |-> ps, action |-> act, io |-> "ok"] :
        mb \in {bob, ops},
        ps \in {<<>>, <<"read">>, <<"read", "update">>, <<"bogus">>, <<"update", "bogus">>},
        act \in {addPerm, removePerm, "toggle"}}
    \cup {[item |-> node1, member |-> bob, perms |-> <<"read">>, action |-> addPerm,
           io |-> io] : io \in {"loadFail", "saveFail"}}

\* the DeleteItemACL calls made
DeleteCalls ==
    {[item |-> item, io |-> "ok"] : item \in {node1, node2, adminsItem}}
    \cup {[item |-> node1, io |-> io] : io \in {"loadFail", "innerLoadFail", "saveFail"}}

\* how a call relates to the one completed before it: "repeat" when that one
\* was the same call and succeeded, "inverse" when that one was a rename, with
\* the file system working, that this rename takes back
Follows(op, c) ==
    {"repeat" : x \in {1} \cap {IF last.op = op /\ last.err = "nil" /\ last.call = c
                                THEN 1 ELSE 0}}
    \cup {"inverse" : x \in {1} \cap
            {IF /\ op = "RenameItemACL" /\ last.op = op
                /\ last.err = "nil" /\ last.call.io = "ok" /\ c.io = "ok"
                /\ last.call.oldName = GetName(c.item)
                /\ GetName(last.call.item) = c.oldName
                /\ ContainerKind(last.call.item) = ContainerKind(c.item)
                /\ ContainerType(last.call.item) = ContainerType(c.item)
             THEN 1 ELSE 0}}

\* what the enforcer model holds and the file does not when a call starts:
\* the changes a failed call made in memory
Stale ==
    [p |-> (mem[TheOrg].p \ disk[TheOrg].p) \cup (disk[TheOrg].p \ mem[TheOrg].p),
     g |-> (mem[TheOrg].g \ disk[TheOrg].g) \cup (disk[TheOrg].g \ mem[TheOrg].g)]

\* the call completed before the one that starts: its operation and error
Prev == [op |-> last.op, err |-> IF last.op = "none" THEN "nil" ELSE last.err]

\* EditItemPerm on TheOrg's Checker, start to return
EditItemPerm(c) ==
    /\ LocksFree
    /\ calls < MaxCalls
    /\ LET r == EditItemPermRun(mem[TheOrg], disk[TheOrg], c.item, c.member, c.perms,
                                c.action, c.io) IN
       /\ mem' = [mem EXCEPT ![TheOrg] = r.mem]
       /\ disk' = [disk EXCEPT ![TheOrg] = r.disk]
       /\ last' = [op |-> "EditItemPerm", call |-> c, pre |-> disk[TheOrg], err |-> r.err,
                   follows |-> Follows("EditItemPerm", c),
                   stale |-> Stale, prev |-> Prev,
                   clean |-> EditItemPermRun(disk[TheOrg], disk[TheOrg], c.item, c.member,
                                             c.perms, c.action, c.io).disk]
    /\ calls' = calls + 1
    /\ UNCHANGED <<assoc, usingDB, concVars>>

\* EditFromJSON on TheOrg's Checker, start to return
EditFromJSON(c) ==
    /\ LocksFree
    /\ calls < MaxCalls
    /\ LET r == EditFromJSONRun(mem[TheOrg], disk[TheOrg], c.item, c.perm, c.data, c.io) IN
       /\ mem' = [mem EXCEPT ![TheOrg] = r.mem]
       /\ disk' = [disk EXCEPT ![TheOrg] = r.disk]
       /\ last' = [op |-> "EditFromJSON", call |-> c, pre |-> disk[TheOrg], err |-> r.err,
                   follows |-> Follows("EditFromJSON", c),
                   stale |-> Stale, prev |-> Prev,
                   clean |-> EditFromJSONRun(disk[TheOrg], disk[TheOrg], c.item, c.perm,
                                             c.data, c.io).disk]
    /\ calls' = calls + 1
    /\ UNCHANGED <<assoc, usingDB, concVars>>

\* RenameItemACL on TheOrg's Checker, start to return; origin is the file
\* before the rename that this one takes back
RenameItemACL(c) ==
    /\ LocksFree
    /\ calls < MaxCalls
    /\ LET r == RenameItemACLRun(mem[TheOrg], disk[TheOrg], c.item, c.oldName, c.io) IN
       /\ mem' = [mem EXCEPT ![TheOrg] = r.mem]
       /\ disk' = [disk EXCEPT ![TheOrg] = r.disk]
       /\ last' = [op |-> "RenameItemACL", call |-> c, pre |-> disk[TheOrg], err |-> r.err,
                   follows |-> Follows("RenameItemACL", c),
                   origin |-> IF "inverse" \in Follows("RenameItemACL", c)
                              THEN last.pre ELSE EmptyPolicy,
                   stale |-> Stale, prev |-> Prev,
                   clean |-> RenameItemACLRun(disk[TheOrg], disk[TheOrg], c.item,
                                              c.oldName, c.io).disk]
    /\ calls' = calls + 1
    /\ UNCHANGED <<assoc, usingDB, concVars>>

\* DeleteItemACL on TheOrg's Checker, start to return
DeleteItemACL(c) ==
    /\ LocksFree
    /\ calls < MaxCalls
    /\ LET r == DeleteItemACLRun(mem[TheOrg], disk[TheOrg], c.item, c.io) IN
       /\ mem' = [mem EXCEPT ![TheOrg] = r.mem]
       /\ disk' = [disk EXCEPT ![TheOrg] = r.disk]
       /\ last' = [op |-> "DeleteItemACL", call |-> c, pre |-> disk[TheOrg], err |-> r.err,
                   res |-> r.res, follows |-> {},
                   stale |-> Stale, prev |-> Prev,
                   clean |-> DeleteItemACLRun(disk[TheOrg], disk[TheOrg], c.item, c.io).disk]
    /\ calls' = calls + 1
    /\ UNCHANGED <<assoc, usingDB, concVars>>

NextEdit ==
    \/ \E c \in EditCalls : EditFromJSON(c)
    \/ \E c \in RenameCalls : RenameItemACL(c)
    \/ \E c \in DeleteCalls : DeleteItemACL(c)
    \/ \E c \in EditItemPermCalls : EditItemPerm(c)

SpecEdit == InitEdit /\ [][NextEdit]_vars

----------------------------------------------------------------------------
(* Concurrency model: each call is the sequence of its steps, taken one at a
   time by the thread making it. A loop over tuples or members is one step. *)

\* largest number of calls started in the concurrency model
MaxConcCalls == 2

\* a role with its members (Role.AllMembers)
Role(n, members) == [mtype |-> "group", name |-> n, org |-> TheOrg, members |-> members]
AllMembers(role) == role.members

\* one step of a call: its kind and its argument
I(kind) == [i |-> kind, a |-> "-"]
IA(kind, arg) == [i |-> kind, a |-> arg]

\* the steps of EditItemPerm(item, member, perms, action)
EditItemPermProg(perms) ==
    <<I("enter"), I("waitForChanLock"), I("Lock"), I("LoadPolicy"), I("eip_check")>>
    \o [k \in 1..Len(perms) |-> IA("eip_perm", perms[k])]
    \o <<I("SavePolicy"), I("leave")>>

\* the steps of AddMembers and RemoveMembers: the locks are taken unless
\* inTransaction is read as true
MembersProg(step) ==
    <<I("enter"), I("checkTx"), I("waitForChanLock"), I("Lock"), I("LoadPolicy"),
      I(step), I("SavePolicy"), I("leave")>>

RECURSIVE CreatorProg(_)
CreatorProg(k) ==
    IF k > Len(DefaultACLs) THEN <<>>
    ELSE EditItemPermProg(<<DefaultACLs[k]>>) \o CreatorProg(k + 1)

\* the steps of each Checker method, in the order of its code
Prog(c) ==
    CASE c.op = "CheckItemPerm" ->
            <<I("enter"), I("waitForChanLock"), I("RLock"), I("LoadPolicy"), I("check"),
              I("leave")>>
      [] c.op = "EditItemPerm" -> EditItemPermProg(c.perms)
      [] c.op = "EditFromJSON" ->
            <<I("enter"), I("waitForChanLock"), I("efj_type"), I("Lock"), I("efj_aclEdit"),
              I("LoadPolicy"), I("efj_lists"), I("efj_remove"), I("efj_actors"),
              I("efj_groups"), I("SavePolicy"), I("leave")>>
      [] c.op = "AddACLRole" ->
            <<I("enter"), I("waitForChanLock"), I("Lock"), I("setTx"), I("LoadPolicy")>>
            \o MembersProg("addMembers") \o <<I("leave")>>
      [] c.op = "RemoveACLRole" ->
            <<I("enter"), I("waitForChanLock"), I("Lock"), I("setTx"), I("LoadPolicy"),
              I("deleteRole"), I("SavePolicy"), I("leave")>>
      [] c.op = "AddMembers" -> MembersProg("addMembers")
      [] c.op = "RemoveMembers" -> MembersProg("removeMembers")
      [] c.op = "RemoveUser" ->
            <<I("enter"), I("Lock"), I("LoadPolicy"), I("deleteRolesForUser"),
              I("SavePolicy"), I("leave")>>
      [] c.op = "GetItemPolicies" ->
            <<I("enter"), I("LoadPolicyNoErr"), I("gip_filter"), I("leave")>>
      [] c.op = "RenameItemACL" ->
            <<I("enter"), I("waitForChanLock"), I("Lock"), I("LoadPolicy"),
              I("LoadPolicyNoErr"), I("rn_get"), I("rn_add"), I("rn_remove"),
              I("SavePolicy"), I("leave")>>
      [] c.op = "RenameMember" ->
            <<I("enter"), I("waitForChanLock"), I("Lock"), I("LoadPolicy"),
              I("rm_get"), I("rm_add"), I("rm_remove"), I("SavePolicy"), I("leave")>>
      [] c.op = "DeleteItemACL" ->
            <<I("enter"), I("waitForChanLock"), I("Lock"), I("LoadPolicy"),
              I("LoadPolicyNoErr"), I("del_get"), I("del_remove"), I("SavePolicy"),
              I("leave")>>
      [] c.op = "CreatorOnly" ->
            <<I("enter"), I("LoadPolicy")>> \o CreatorProg(1) \o <<I("leave")>>

\* what a step does to the enforcer model pol, seen by a thread whose locals
\* are loc: tuples and edges added and removed, the new locals, and how the
\* call goes on ("go", "return": return nil, or the error returned)
Effect(addp, delp, addg, delg, loc, ret) ==
    [addp |-> addp, delp |-> delp, addg |-> addg, delg |-> delg, loc |-> loc, ret |-> ret]
NoEffect(loc, ret) == Effect({}, {}, {}, {}, loc, ret)

\* the step calls AddPolicy, RemovePolicy or a role call
Touches(e) == e.addp # {} \/ e.delp # {} \/ e.addg # {} \/ e.delg # {}

Apply(pol, e) == [p |-> (pol.p \ e.delp) \cup e.addp, g |-> (pol.g \ e.delg) \cup e.addg]

StepEffect(c, ins, pol, as, loc) ==
    CASE ins.i = "check" ->
            NoEffect([loc EXCEPT !.res =
                         CheckItemPermLoaded(pol, as, c.org, c.item, c.doer, c.perm)], "go")
      [] ins.i = "eip_check" ->
            IF c.action \notin {addPerm, removePerm} THEN NoEffect(loc, "InvalidEditAction")
            ELSE IF Len(c.perms) = 0 THEN NoEffect(loc, "InvalidEditAction")
            ELSE NoEffect(loc, "go")
      [] ins.i = "eip_perm" ->
            IF ~checkValidPerm(ins.a) THEN NoEffect(loc, "InvalidEditAction")
            ELSE IF c.action = addPerm
                 THEN Effect({buildEnforcingSlice(c.item, c.member, ins.a)}, {}, {}, {}, loc, "go")
                 ELSE Effect({}, {buildEnforcingSlice(c.item, c.member, ins.a)}, {}, {}, loc, "go")
      [] ins.i = "efj_type" ->
            IF c.data.shape \in {"notObject", "missingPerm"}
            THEN NoEffect(loc, "MalformedACLPayload") ELSE NoEffect(loc, "go")
      [] ins.i = "efj_aclEdit" ->
            IF c.data.shape = "permNotObject"
            THEN NoEffect(loc, "MalformedACLPayload") ELSE NoEffect(loc, "go")
      [] ins.i = "efj_lists" ->
            IF c.data.shape \in {"actorsNotList", "groupsNotList"}
            THEN NoEffect(loc, "MalformedACLPayload")
            ELSE IF c.data.shape = "elementNotString" THEN NoEffect(loc, "panic")
            ELSE NoEffect(loc, "go")
      [] ins.i = "efj_remove" ->
            Effect({}, EditRemovals(pol, c.item, c.perm, c.data.actors, c.data.groups),
                   {}, {}, loc, "go")
      [] ins.i = "efj_actors" ->
            LET r == AddActors(pol, c.item, c.perm, c.data.actors, 1) IN
            Effect(r.pol.p \ pol.p, {}, {}, {}, loc, IF r.err = "nil" THEN "go" ELSE r.err)
      [] ins.i = "efj_groups" ->
            LET r == EditGroups(pol, c.item, c.perm, c.data.groups) IN
            Effect(r.pol.p \ pol.p, pol.p \ r.pol.p, {}, {}, loc,
                   IF r.err = "nil" THEN "go" ELSE r.err)
      [] ins.i = "addMembers" ->
            Effect({}, {}, {<<ACLName(m), ACLName(c.role)>> : m \in c.members}, {}, loc, "go")
      [] ins.i = "removeMembers" ->
            Effect({}, {}, {}, {<<ACLName(m), ACLName(c.role)>> : m \in c.members}, loc, "go")
      [] ins.i = "deleteRole" ->
            Effect({}, GetFilteredPolicy(pol, condGroupPos, ACLName(c.role)),
                   {}, {e \in pol.g : e[2] = ACLName(c.role)}, loc, "go")
      [] ins.i = "deleteRolesForUser" ->
            Effect({}, {}, {}, {e \in pol.g : e[1] = ACLName(c.member)}, loc, "go")
      [] ins.i = "gip_filter" ->
            NoEffect([loc EXCEPT !.old = OnItem(pol, c.item)], "go")
      [] ins.i = "rn_get" ->
            LET old == OnItem(pol, [c.item EXCEPT !.name = c.oldName]) IN
            NoEffect([loc EXCEPT !.old = old], IF old = {} THEN "return" ELSE "go")
      [] ins.i = "rn_add" -> Effect(Renamed(loc.old, c.item), {}, {}, {}, loc, "go")
      [] ins.i = "rn_remove" -> Effect({}, loc.old, {}, {}, loc, "go")
      [] ins.i = "rm_get" ->
            LET old == GetFilteredPolicy(pol, condGroupPos, c.oldName) IN
            NoEffect([loc EXCEPT !.old = old], IF old = {} THEN "return" ELSE "go")
      [] ins.i = "rm_add" ->
            Effect({[q EXCEPT ![condGroupPos] = ACLName(c.member)] : q \in loc.old},
                   {}, {}, {}, loc, "go")
      [] ins.i = "rm_remove" -> Effect({}, loc.old, {}, {}, loc, "go")
      [] ins.i = "del_get" -> NoEffect([loc EXCEPT !.old = OnItem(pol, c.item)], "go")
      [] ins.i = "del_remove" ->
            Effect({}, loc.old, {}, {}, [loc EXCEPT !.res = Result(loc.old # {}, "nil")], "go")

\* the steps that StepEffect describes
WorkSteps ==
    {"check", "eip_check", "eip_perm", "efj_type", "efj_aclEdit", "efj_lists", "efj_remove",
     "efj_actors", "efj_groups", "addMembers", "removeMembers", "deleteRole",
     "deleteRolesForUser", "gip_filter", "rn_get", "rn_add", "rn_remove", "rm_get", "rm_add",
     "rm_remove", "del_get", "del_remove"}

Running(t) == thr[t].pc = "run"
Cur(t) == thr[t].prog[thr[t].ip]
At(t, kind) == Running(t) /\ Cur(t).i = kind
OrgOf(t) == thr[t].call.org

Goto(t, ip) == [thr EXCEPT ![t].ip = ip]
Push(t, d) == [thr EXCEPT ![t].ip = @ + 1, ![t].defers = <<d>> \o @]
\* return err: the deferred calls run, last deferred first
ReturnErr(t, err) == [thr EXCEPT ![t].pc = "unwind", ![t].err = err]

\* the locals of a call: the tuples it read and what it returns beside its error
NoLocals == [old |-> {}, res |-> Result(FALSE, "none")]

\* a thread starts a call
Start(t, c) ==
    /\ thr[t].pc = "idle"
    /\ calls < MaxConcCalls
    /\ thr' = [thr EXCEPT ![t] = [pc |-> "run", call |-> c, prog |-> Prog(c), ip |-> 1,
                                  defers |-> <<>>, pre |-> disk[c.org], touched |-> FALSE,
                                  loaded |-> FALSE, want |-> EmptyPolicy,
                                  saved |-> FALSE, wrote |-> EmptyPolicy,
                                  loc |-> NoLocals, err |-> "nil"]]
    /\ calls' = calls + 1
    /\ UNCHANGED <<disk, mem, assoc, usingDB, last, gate, wlock, rlock, inTransaction>>

\* entry of a method: its deferred calls are stacked above this mark
Enter(t) ==
    /\ At(t, "enter")
    /\ thr' = Push(t, "mark")
    /\ UNCHANGED <<disk, mem, assoc, usingDB, last, gate, wlock, rlock, inTransaction, calls>>

\* c.waitForChanLock(); defer c.releaseChanLock()
WaitForChanLock(t) ==
    /\ At(t, "waitForChanLock")
    /\ gate = "free"
    /\ gate' = t
    /\ thr' = Push(t, "releaseChanLock")
    /\ UNCHANGED <<disk, mem, assoc, usingDB, last, wlock, rlock, inTransaction, calls>>

\* c.m.Lock(); defer c.m.Unlock()
Lock(t) ==
    /\ At(t, "Lock")
    /\ wlock[OrgOf(t)] = "free" /\ rlock[OrgOf(t)] = {}
    /\ wlock' = [wlock EXCEPT ![OrgOf(t)] = t]
    /\ thr' = Push(t, "Unlock")
    /\ UNCHANGED <<disk, mem, assoc, usingDB, last, gate, rlock, inTransaction, calls>>

\* c.m.RLock(); defer c.m.RUnlock()
RLock(t) ==
    /\ At(t, "RLock")
    /\ wlock[OrgOf(t)] = "free"
    /\ rlock' = [rlock EXCEPT ![OrgOf(t)] = @ \cup {t}]
    /\ thr' = Push(t, "RUnlock")
    /\ UNCHANGED <<disk, mem, assoc, usingDB, last, gate, wlock, inTransaction, calls>>

\* c.inTransaction = true; defer func() { c.inTransaction = false }()
SetTx(t) ==
    /\ At(t, "setTx")
    /\ inTransaction' = [inTransaction EXCEPT ![OrgOf(t)] = TRUE]
    /\ thr' = Push(t, "clearTx")
    /\ UNCHANGED <<disk, mem, assoc, usingDB, last, gate, wlock, rlock, calls>>

\* mutant: the gate and the lock are taken whatever the flag
CheckTx_NeverSkip(t) ==
    /\ At(t, "checkTx")
    /\ thr' = Goto(t, thr[t].ip + 1)
    /\ UNCHANGED <<disk, mem, assoc, usingDB, last, gate, wlock, rlock, inTransaction, calls>>

\* if !c.inTransaction { waitForChanLock; Lock }: the two steps are skipped
\* when the flag is read as true
CheckTx(t) ==
    /\ At(t, "checkTx")
    /\ thr' = Goto(t, IF inTransaction[OrgOf(t)] THEN thr[t].ip + 3 ELSE thr[t].ip + 1)
    /\ UNCHANGED <<disk, mem, assoc, usingDB, last, gate, wlock, rlock, inTransaction, calls>>

\* the file system fails the reload numbered n of the call
LoadFails(t, kind) ==
    \/ kind = "LoadPolicy" /\ thr[t].call.io = "loadFail"
    \/ kind = "LoadPolicyNoErr" /\ thr[t].call.io = "innerLoadFail"

\* if polErr := c.e.LoadPolicy(); polErr != nil { return polErr }
Load(t) ==
    /\ At(t, "LoadPolicy")
    /\ mem' = [mem EXCEPT ![OrgOf(t)] = LoadPolicy(disk[OrgOf(t)], ~LoadFails(t, "LoadPolicy"))]
    /\ thr' = IF LoadFails(t, "LoadPolicy") THEN ReturnErr(t, "PolicyLoadError")
              ELSE [thr EXCEPT ![t].ip = @ + 1, ![t].loaded = TRUE,
                               ![t].want = disk[OrgOf(t)], ![t].saved = FALSE]
    /\ UNCHANGED <<disk, assoc, usingDB, last, gate, wlock, rlock, inTransaction, calls>>

\* c.e.LoadPolicy() in GetItemPolicies: the error is dropped
LoadNoErr(t) ==
    /\ At(t, "LoadPolicyNoErr")
    /\ mem' = [mem EXCEPT ![OrgOf(t)] =
                  LoadPolicy(disk[OrgOf(t)], ~LoadFails(t, "LoadPolicyNoErr"))]
    /\ thr' = [thr EXCEPT ![t].ip = @ + 1, ![t].loaded = TRUE,
                          ![t].want = disk[OrgOf(t)], ![t].saved = FALSE]
    /\ UNCHANGED <<disk, assoc, usingDB, last, gate, wlock, rlock, inTransaction, calls>>

\* a step on the enforcer model: a check, a query or a loop of AddPolicy,
\* RemovePolicy or role calls
Work(t) ==
    /\ Running(t) /\ Cur(t).i \in WorkSteps
    /\ LET e == StepEffect(thr[t].call, Cur(t), mem[OrgOf(t)], assoc, thr[t].loc) IN
       /\ mem' = [mem EXCEPT ![OrgOf(t)] = Apply(@, e)]
       /\ thr' = IF e.ret = "go"
                 THEN [thr EXCEPT ![t].ip = @ + 1, ![t].loc = e.loc,
                                  ![t].want = Apply(@, e),
                                  ![t].touched = @ \/ Touches(e)]
                 ELSE [thr EXCEPT ![t].pc = "unwind", ![t].loc = e.loc,
                                  ![t].touched = @ \/ Touches(e),
                                  ![t].err = IF e.ret = "return" THEN "nil" ELSE e.ret]
    /\ UNCHANGED <<disk, assoc, usingDB, last, gate, wlock, rlock, inTransaction, calls>>

\* if err := c.e.SavePolicy(); err != nil { return err }
SavePolicy(t) ==
    /\ At(t, "SavePolicy")
    /\ IF thr[t].call.io = "saveFail"
       THEN /\ thr' = ReturnErr(t, "PolicySaveError")
            /\ disk' = disk
       ELSE /\ disk' = [disk EXCEPT ![OrgOf(t)] = mem[OrgOf(t)]]
            /\ thr' = [thr EXCEPT ![t].ip = @ + 1, ![t].saved = TRUE,
                                 ![t].wrote = mem[OrgOf(t)]]
    /\ UNCHANGED <<mem, assoc, usingDB, last, gate, wlock, rlock, inTransaction, calls>>

\* mutant: the gate is released at the end of the method only, not by a
\* deferred call: a return with an error leaves the slot taken
RunDeferred_ErrorKeepsGate(t, d) ==
    /\ gate' = IF d = "releaseChanLock" /\ thr[t].err = "nil" THEN "free" ELSE gate
    /\ wlock' = IF d = "Unlock" THEN [wlock EXCEPT ![OrgOf(t)] = "free"] ELSE wlock
    /\ rlock' = IF d = "RUnlock" THEN [rlock EXCEPT ![OrgOf(t)] = @ \ {t}] ELSE rlock
    /\ inTransaction' = IF d = "clearTx" THEN [inTransaction EXCEPT ![OrgOf(t)] = FALSE]
                        ELSE inTransaction

\* one deferred call runs
RunDeferred(t, d) ==
    /\ gate' = IF d = "releaseChanLock" THEN "free" ELSE gate
    /\ wlock' = IF d = "Unlock" THEN [wlock EXCEPT ![OrgOf(t)] = "free"] ELSE wlock
    /\ rlock' = IF d = "RUnlock" THEN [rlock EXCEPT ![OrgOf(t)] = @ \ {t}] ELSE rlock
    /\ inTransaction' = IF d = "clearTx" THEN [inTransaction EXCEPT ![OrgOf(t)] = FALSE]
                        ELSE inTransaction

\* return of a method called by another: its deferred calls run, down to its
\* mark, and the caller goes on
Leave(t) ==
    /\ At(t, "leave")
    /\ thr[t].ip < Len(thr[t].prog)
    /\ LET d == Head(thr[t].defers) IN
       /\ RunDeferred(t, d)
       /\ thr' = [thr EXCEPT ![t].defers = Tail(@),
                             ![t].ip = IF d = "mark" THEN @ + 1 ELSE @]
    /\ UNCHANGED <<disk, mem, assoc, usingDB, last, calls>>

\* return of the call itself, or an error return: every deferred call runs
Unwind(t) ==
    /\ \/ thr[t].pc = "unwind"
       \/ At(t, "leave") /\ thr[t].ip = Len(thr[t].prog)
    /\ thr[t].defers # <<>>
    /\ RunDeferred(t, Head(thr[t].defers))
    /\ thr' = [thr EXCEPT ![t].defers = Tail(@), ![t].pc = "unwind"]
    /\ UNCHANGED <<disk, mem, assoc, usingDB, last, calls>>

\* the call has returned to its caller
Return(t) ==
    /\ thr[t].pc = "unwind"
    /\ thr[t].defers = <<>>
    /\ last' = [op |-> thr[t].call.op, call |-> thr[t].call, err |-> thr[t].err,
                res |-> thr[t].loc.res, by |-> t, pre |-> thr[t].pre,
                touched |-> thr[t].touched,
                saved |-> thr[t].saved,
                want |-> thr[t].want, wrote |-> thr[t].wrote]
    /\ thr' = [thr EXCEPT ![t] = Idle]
    /\ UNCHANGED <<disk, mem, assoc, usingDB, gate, wlock, rlock, inTransaction, calls>>

\* the calls made in the concurrency model
opsRole == Role("ops", {alice})
adminsRole == Role("admins", {alice, bob})

ConcCalls ==
    {[op |-> "CheckItemPerm", org |-> TheOrg, io |-> "ok", item |-> node1, doer |-> alice,
      perm |-> "read"],
     [op |-> "EditItemPerm", org |-> TheOrg, io |-> "ok", item |-> node1, member |-> bob,
      perms |-> <<"read">>, action |-> addPerm],
     [op |-> "EditItemPerm", org |-> "org2", io |-> "ok", item |-> node1, member |-> bob,
      perms |-> <<"read">>, action |-> addPerm],
     [op |-> "EditItemPerm", org |-> TheOrg, io |-> "saveFail", item |-> node1, member |-> alice,
      perms |-> <<"update">>, action |-> removePerm],
     [op |-> "EditFromJSON", org |-> TheOrg, io |-> "ok", item |-> adminsItem, perm |-> "read",
      data |-> OkPayload(<<"bob">>, <<>>)],
     [op |-> "EditFromJSON", org |-> TheOrg, io |-> "ok", item |-> node1, perm |-> "read",
      data |-> OkPayload(<<"alice", "ghost">>, <<>>)],
     [op |-> "EditFromJSON", org |-> TheOrg, io |-> "ok", item |-> node1, perm |-> "read",
      data |-> [shape |-> "missingPerm"]],
     [op |-> "EditFromJSON", org |-> TheOrg, io |-> "ok", item |-> node1, perm |-> "read",
      data |-> [shape |-> "permNotObject"]],
     [op |-> "EditFromJSON", org |-> TheOrg, io |-> "ok", item |-> node1, perm |-> "read",
      data |-> [shape |-> "groupsNotList"]],
     [op |-> "EditFromJSON", org |-> TheOrg, io |-> "ok", item |-> node1, perm |-> "read",
      data |-> [shape |-> "elementNotString"]],
     [op |-> "AddACLRole", org |-> TheOrg, io |-> "ok", role |-> opsRole,
      members |-> AllMembers(opsRole)],
     [op |-> "AddACLRole", org |-> TheOrg, io |-> "ok", role |-> adminsRole,
      members |-> AllMembers(adminsRole)],
     [op |-> "RemoveACLRole", org |-> TheOrg, io |-> "ok", role |-> opsRole],
     [op |-> "AddMembers", org |-> TheOrg, io |-> "ok", role |-> opsRole, members |-> {bob}],
     [op |-> "RemoveMembers", org |-> TheOrg, io |-> "ok", role |-> opsRole,
      members |-> {alice}],
     [op |-> "RemoveUser", org |-> TheOrg, io |-> "ok", member |-> alice],
     [op |-> "GetItemPolicies", org |-> TheOrg, io |-> "ok", item |-> node1],
     [op |-> "RenameItemACL", org |-> TheOrg, io |-> "ok", item |-> node2, oldName |-> "node1"],
     [op |-> "RenameItemACL", org |-> TheOrg, io |-> "loadFail", item |-> node2,
      oldName |-> "node1"],
     [op |-> "RenameItemACL", org |-> TheOrg, io |-> "ok", item |-> node1, oldName |-> "node1"],
     [op |-> "RenameMember", org |-> TheOrg, io |-> "ok", member |-> alice,
      oldName |-> ACLName(alice)],
     [op |-> "RenameMember", org |-> TheOrg, io |-> "ok", member |-> bob,
      oldName |-> ACLName(alice)],
     [op |-> "DeleteItemACL", org |-> TheOrg, io |-> "ok", item |-> node1],
     [op |-> "CreatorOnly", org |-> TheOrg, io |-> "ok", item |-> node2, member |-> alice,
      perms |-> <<>>, action |-> addPerm]}

ConcPolicy ==
    [p |-> {buildEnforcingSlice(node1, alice, "read"),
            buildEnforcingSlice(node1, alice, "update"),
            buildEnforcingSlice(node1, ops, "read")},
     g |-> {<<ACLName(alice), ACLName(ops)>>}]

InitConc ==
    /\ disk = [o \in Orgs |-> IF o = TheOrg THEN ConcPolicy ELSE EmptyPolicy]
    /\ mem = disk
    /\ assoc = {<<"alice", TheOrg>>}
    /\ usingDB = FALSE
    /\ last = [op |-> "none"]
    /\ InitLocks
    /\ calls = 0

NextConc ==
    \E t \in Threads :
        \/ \E c \in ConcCalls : Start(t, c)
        \/ Enter(t)
        \/ WaitForChanLock(t)
        \/ Lock(t)
        \/ RLock(t)
        \/ SetTx(t)
        \/ CheckTx(t)
        \/ Load(t)
        \/ LoadNoErr(t)
        \/ Work(t)
        \/ SavePolicy(t)
        \/ Leave(t)
        \/ Unwind(t)
        \/ Return(t)

SpecConc == InitConc /\ [][NextConc]_vars

----------------------------------------------------------------------------
(* Claims on CheckItemPerm (SpecCheck) *)

\* a CheckItemPerm call has returned after a successful reload
Checked == last.op = "CheckItemPerm" /\ last.loaded

Allowed == Result(TRUE, "nil")
CleanDeny == Result(FALSE, "nil")

\* the subjects a doer acts as under the policy's role edges
ActsAs(pol, doer) == Reach(pol.g, {ACLName(doer)}, Cardinality(pol.g))

\* some tuple equal to req but for its subject, which the doer acts as
GrantedTo(pol, doer, req) ==
    \E s \in ActsAs(pol, doer) : [req EXCEPT ![condGroupPos] = s] \in pol.p

\* the $$default$$ tuple of the item's (kind, subkind, perm)
DefaultOf(item, doer, perm) == general(buildEnforcingSlice(item, doer, perm))

\* C1: whenever the policy holds the allow tuple (actor, type, kind, name,
\* perm), CheckItemPerm returns (true, nil), whatever default tuples, sentinel
\* or association records exist.
C1_SpecificAllowWins ==
    (Checked /\ buildEnforcingSlice(last.item, last.doer, last.perm) \in last.pre.p)
        => last.res = Allowed

\* C1 witness: allowed on the specific tuple for a doer that is not associated,
\* with the sentinel or a default tuple in the policy as well
C1_Witness ==
    /\ Checked
    /\ buildEnforcingSlice(last.item, last.doer, last.perm) \in last.pre.p
    /\ testAssociation(assoc, last.doer, TheOrg) = "NotAssociated"
    /\ \E t \in last.pre.p : IsSentinel(t) \/ t[condNamePos] = DefaultName
    /\ last.res = Allowed

\* C2 as claimed: no tuple of the actor for this perm on the item, and a
\* $$default$$ allow tuple of the item's (kind, subkind, perm) applies to the
\* actor: CheckItemPerm returns (true, nil), whatever else the actor holds.
C2_Original ==
    (/\ Checked
     /\ buildEnforcingSlice(last.item, last.doer, last.perm) \notin last.pre.p
     /\ GrantedTo(last.pre, last.doer, DefaultOf(last.item, last.doer, last.perm)))
        => last.res = Allowed

\* C2 as amended: the actor holds no tuple at all on the item (whatever the
\* perm), the item, if of kind groups, carries no sentinel for the perm, and the
\* default tuple applies to the actor: CheckItemPerm returns (true, nil).
C2_GeneralFallback ==
    (/\ Checked
     /\ \A t \in OnItem(last.pre, last.item) : t[condGroupPos] # ACLName(last.doer)
     /\ ContainerKind(last.item) = "groups"
            => buildDenySlice(last.item, last.perm) \notin last.pre.p
     /\ GrantedTo(last.pre, last.doer,
                  DefaultOf(last.item, last.doer, last.perm)))
        => last.res = Allowed

\* C2 witness: allowed on a default tuple alone, held through a role
C2_Witness ==
    /\ Checked
    /\ ~GrantedTo(last.pre, last.doer,
                  buildEnforcingSlice(last.item, last.doer, last.perm))
    /\ DefaultOf(last.item, last.doer, last.perm) \notin last.pre.p
    /\ GrantedTo(last.pre, last.doer,
                 DefaultOf(last.item, last.doer, last.perm))
    /\ last.res = Allowed

\* the case of C3: a groups item carrying the sentinel for the perm, a doer
\* with no grant (own or through a role) for the perm on the item
C3_Case ==
    /\ Checked
    /\ ContainerKind(last.item) = "groups"
    /\ buildDenySlice(last.item, last.perm) \in last.pre.p
    /\ ~GrantedTo(last.pre, last.doer,
                  buildEnforcingSlice(last.item, last.doer, last.perm))

\* C3 as claimed: in that case CheckItemPerm returns (false, nil), not true and
\* not an error, even when a default allow tuple applies to the actor.
C3_Original == C3_Case => last.res = CleanDeny

\* C3 as amended: in that case CheckItemPerm never allows: it returns
\* (false, nil) when testAssociation passes the actor and the NotAssociated
\* error otherwise.
C3_SentinelDenies ==
    C3_Case =>
        last.res = Result(FALSE, testAssociation(assoc, last.doer, TheOrg))

\* C3 witness: denied under the sentinel although a default tuple applies
C3_Witness ==
    /\ C3_Case
    /\ GrantedTo(last.pre, last.doer,
                 DefaultOf(last.item, last.doer, last.perm))
    /\ last.res = CleanDeny

----------------------------------------------------------------------------
(* Claims on EditFromJSON and RenameItemACL (SpecEdit) *)

\* an EditFromJSON call has returned without error
Edited == last.op = "EditFromJSON" /\ last.err = "nil"

\* the tuples of a policy for (item, perm): same name, kind, type and perm
OnItemPerm(pol, item, perm) == {t \in OnItem(pol, item) : t[condPermPos] = perm}

\* the subjects a desired payload names
DesiredSubjects(data) ==
    {Str(data.actors[i]) : i \in 1..Len(data.actors)}
    \cup {<<RolePrefix, data.groups[i]>> : i \in 1..Len(data.groups)}

\* C7: EditFromJSON is idempotent: a successful call that repeats the call
\* completed just before it leaves the persisted tuple set as that call left it.
C7_Idempotent ==
    (Edited /\ "repeat" \in last.follows) => disk[TheOrg] = last.pre

\* C7 witness: a repeated successful call on a policy the first call changed to
\* hold a desired actor and a desired group
C7_Witness ==
    /\ Edited /\ "repeat" \in last.follows
    /\ last.call.data.actors # <<>> /\ last.call.data.groups # <<>>
    /\ disk[TheOrg] = last.pre
    /\ calls = 2

\* C8: after a successful EditFromJSON(item, perm, desired) the subjects holding
\* a tuple for (item, perm), the sentinel aside, are exactly the desired actors
\* and role##G for each desired group G, and every tuple of another item, kind,
\* type or perm is unchanged.
C8_ExactlyDesired ==
    Edited =>
        LET item == last.call.item
            perm == last.call.perm
            now == OnItemPerm(disk[TheOrg], item, perm)
        IN /\ {t[condGroupPos] : t \in {u \in now : ~IsSentinel(u)}}
                  = DesiredSubjects(last.call.data)
           /\ disk[TheOrg].p \ now = last.pre.p \ OnItemPerm(last.pre, item, perm)
           /\ disk[TheOrg].g = last.pre.g

\* C8 witness: a call that removed a subject absent from desired, added a
\* desired one and left a tuple of another perm or item in place
C8_Witness ==
    /\ Edited
    /\ LET item == last.call.item
           perm == last.call.perm
           was == OnItemPerm(last.pre, item, perm)
           now == OnItemPerm(disk[TheOrg], item, perm)
       IN /\ was \ now # {}
          /\ now \ was # {}
          /\ last.pre.p \ was # {}

\* C9: after a successful EditFromJSON on an item of kind groups the sentinel
\* for (item, perm) is present exactly when desired.groups is empty, and
\* role##G is present for each desired group; on an item of another kind no
\* sentinel tuple is added or removed.
C9_SentinelIffNoGroups ==
    Edited =>
        LET item == last.call.item
            perm == last.call.perm
            groups == last.call.data.groups
        IN IF ContainerKind(item) = "groups"
           THEN /\ (buildDenySlice(item, perm) \in disk[TheOrg].p) <=> (groups = <<>>)
                /\ \A i \in 1..Len(groups) :
                      buildEnforcingSlice(item, Group(groups[i]), perm) \in disk[TheOrg].p
           ELSE {t \in disk[TheOrg].p : IsSentinel(t)} = {t \in last.pre.p : IsSentinel(t)}

\* C9 witness: desired groups ["ops"] on a group item that carried the sentinel:
\* the sentinel is gone and role##ops is there
C9_Witness ==
    /\ Edited
    /\ ContainerKind(last.call.item) = "groups"
    /\ last.call.data.groups = <<"ops">>
    /\ buildDenySlice(last.call.item, last.call.perm) \in last.pre.p
    /\ buildDenySlice(last.call.item, last.call.perm) \notin disk[TheOrg].p
    /\ buildEnforcingSlice(last.call.item, ops, last.call.perm) \in disk[TheOrg].p

\* the tuples of a policy keyed on a name for an item's kind and type
OnName(pol, name, item) == OnItem(pol, [item EXCEPT !.name = name])

\* a successful rename, the file system working, that takes back the successful
\* rename completed just before it
RoundTrip ==
    /\ last.op = "RenameItemACL" /\ last.err = "nil"
    /\ "inverse" \in last.follows

----------------------------------------------------------------------------
(* Claims on the locking discipline (SpecConc) *)

\* the mutating operations of a Checker
Mutations ==
    {"EditItemPerm", "EditFromJSON", "AddACLRole", "RemoveACLRole", "AddMembers",
     "RemoveMembers", "RemoveUser", "RenameItemACL", "RenameMember", "DeleteItemACL"}

\* the operations that only evaluate
ReadOps == {"CheckItemPerm", "GetItemACL", "GetItemPolicies"}

\* the steps that reload, query, change or persist the rule store
StoreSteps ==
    {"LoadPolicy", "LoadPolicyNoErr", "SavePolicy", "check", "eip_perm", "efj_remove",
     "efj_actors", "efj_groups", "addMembers", "removeMembers", "deleteRole",
     "deleteRolesForUser", "gip_filter", "rn_get", "rn_add", "rn_remove", "rm_get",
     "rm_add", "rm_remove", "del_get", "del_remove"}

\* thread t has reloaded the rule set and has neither persisted it nor returned
InFlight(t) == Running(t) /\ thr[t].loaded /\ ~thr[t].saved

\* thread t holds the gate and its organization's lock, in the mode of its call
HoldsBoth(t) ==
    /\ gate = t
    /\ IF thr[t].call.op \in ReadOps THEN t \in rlock[OrgOf(t)] ELSE wlock[OrgOf(t)] = t

\* C4: no two of the mutating operations on the same Checker are between
\* their reload and their save at the same time.
C4_OneMutationInFlight ==
    \A t, u \in Threads :
        (/\ t # u
         /\ InFlight(t) /\ InFlight(u)
         /\ thr[t].call.op \in Mutations /\ thr[u].call.op \in Mutations)
            => OrgOf(t) # OrgOf(u)

\* C5: a thread about to reload, evaluate, change or persist the rule store
\* holds the gate and the organization's lock (read lock for the evaluating
\* operations, write lock otherwise), and no two threads are between reload
\* and save at the same time, on the same or on different organizations.
C5_GateAndLockHeld ==
    /\ \A t \in Threads : (Running(t) /\ Cur(t).i \in StoreSteps) => HoldsBoth(t)
    /\ \A t, u \in Threads : (InFlight(t) /\ InFlight(u)) => t = u

\* C6: when a call that persisted the rule set returns success, what it
\* persisted is what was persisted at its reload with exactly its own
\* additions and removals applied.
C6_NoLostUpdate ==
    (last.op # "none" /\ last.err = "nil" /\ last.saved) => last.wrote = last.want

----------------------------------------------------------------------------
(* Claims on the rename steps (SpecConc) *)

\* the tuples of a policy under the old or the new identity of a rename call
UnderEither(pol, c) ==
    IF c.op = "RenameItemACL"
    THEN OnName(pol, c.oldName, c.item) \cup OnItem(pol, c.item)
    ELSE GetFilteredPolicy(pol, condGroupPos, c.oldName)
             \cup GetFilteredPolicy(pol, condGroupPos, ACLName(c.member))

\* the tuples a rename call found under the old identity when it started
OldBefore(c, pre) ==
    IF c.op = "RenameItemACL" THEN OnName(pre, c.oldName, c.item)
    ELSE GetFilteredPolicy(pre, condGroupPos, c.oldName)

Renames == {"RenameItemACL", "RenameMember"}

\* C11: while RenameItemACL or RenameMember runs after its reload, no other
\* call having been made, and in the policy it persists: if the old name held
\* a tuple before the call, some tuple exists under the old or the new identity.
C11_NeverZeroPermissions ==
    /\ \A t \in Threads :
          (/\ calls = 1
           /\ Running(t) /\ thr[t].loaded
           /\ thr[t].call.op \in Renames
           /\ OldBefore(thr[t].call, thr[t].pre) # {})
              => UnderEither(mem[OrgOf(t)], thr[t].call) # {}
    /\ (/\ calls = 1
        /\ last.op \in Renames
        /\ last.err = "nil"
        /\ OldBefore(last.call, last.pre) # {})
           => UnderEither(disk[last.call.org], last.call) # {}

----------------------------------------------------------------------------
(* Claims on CheckItemPerm's failure conditions (SpecCheck) *)

\* the doer is associated with the organization: a user with an association
\* record for (name, org), a client whose OrgName is the organization's name
Associated ==
    IF IsUser(last.doer) THEN <<GetName(last.doer), TheOrg>> \in assoc
    ELSE OrgName(last.doer) = TheOrg

InvalidPermission == Result(FALSE, "InvalidPermission")
NotAssociated == Result(FALSE, "NotAssociated")

\* no tuple of the policy defines the call's perm for the item's (kind, subkind)
PermUndefined == ~isPermValid(last.pre, last.item, last.perm)

C13_Case ==
    /\ Checked
    /\ last.pre.p = {}
    /\ last.item = node1 /\ last.doer = alice /\ last.perm = "read"

\* C13 as claimed: in that case CheckItemPerm returns (false, nil) when alice
\* is associated with the organization and NotAssociated when she is not.
C13_Original ==
    C13_Case => last.res = IF Associated THEN CleanDeny ELSE Result(FALSE, "NotAssociated")

\* C13 as amended: in that case CheckItemPerm returns the InvalidPermission
\* error, whether alice is associated or not: with no tuple no perm is defined
\* for (containers, nodes).
C13_EmptyPolicyInvalidPerm == C13_Case => last.res = InvalidPermission

\* C13 witness: the call on the empty policy with alice associated
C13_Witness ==
    /\ C13_Case
    /\ <<"alice", TheOrg>> \in assoc
    /\ last.res = InvalidPermission

\* the case of C14: neither the specific nor the general tuple is granted to
\* the doer, and some tuple defines the perm for the item's (kind, subkind)
C14_Case ==
    /\ Checked
    /\ ~GrantedTo(last.pre, last.doer,
                  buildEnforcingSlice(last.item, last.doer, last.perm))
    /\ ~GrantedTo(last.pre, last.doer, DefaultOf(last.item, last.doer, last.perm))
    /\ ~PermUndefined

\* C14: in that case CheckItemPerm returns the NotAssociated error when the
\* doer is not associated with the organization, and (false, nil) otherwise.
C14_AssociationThenCleanDeny ==
    C14_Case => last.res = IF Associated THEN CleanDeny ELSE NotAssociated

----------------------------------------------------------------------------
(* Claims on DeleteItemACL and EditItemPerm (SpecEdit) *)

\* a DeleteItemACL call has returned without error
Deleted == last.op = "DeleteItemACL" /\ last.err = "nil"

\* C15: after a successful DeleteItemACL(item) the persisted policy holds no
\* tuple of the item's (name, kind, type), every other tuple is as before, and
\* the boolean returned is true exactly when a tuple was removed.
C15_DeleteExactlyItem ==
    Deleted =>
        /\ OnItem(disk[TheOrg], last.call.item) = {}
        /\ disk[TheOrg].p = last.pre.p \ OnItem(last.pre, last.call.item)
        /\ disk[TheOrg].g = last.pre.g
        /\ last.res <=> (last.pre.p # disk[TheOrg].p)

\* an EditItemPerm call has returned without error
PermEdited == last.op = "EditItemPerm" /\ last.err = "nil"

\* the specific tuples of an EditItemPerm call, one for each of its perms
PermTuples(c) ==
    {buildEnforcingSlice(c.item, c.member, c.perms[i]) : i \in 1..Len(c.perms)}

\* C16: after a successful EditItemPerm with action add the persisted policy
\* holds the specific allow tuple of every perm given, after one with action
\* remove it holds none of them, and every other tuple is as before.
C16_EditItemPermExact ==
    PermEdited =>
        /\ last.call.action = addPerm => PermTuples(last.call) \subseteq disk[TheOrg].p
        /\ last.call.action = removePerm => PermTuples(last.call) \cap disk[TheOrg].p = {}
        /\ disk[TheOrg].p \ PermTuples(last.call) = last.pre.p \ PermTuples(last.call)
        /\ disk[TheOrg].g = last.pre.g

\* C16 witness: a successful removal of a tuple that was there, another tuple
\* staying
C16_Witness ==
    /\ PermEdited
    /\ last.call.action = removePerm
    /\ PermTuples(last.call) \cap last.pre.p # {}
    /\ PermTuples(last.call) \cap disk[TheOrg].p = {}
    /\ disk[TheOrg].p # {}

\* an EditItemPerm call whose action is neither add nor remove, whose perms
\* are empty, or one of whose perms is outside the whitelist
BadPermEdit(c) ==
    \/ c.action \notin {addPerm, removePerm}
    \/ c.perms = <<>>
    \/ \E i \in 1..Len(c.perms) : ~checkValidPerm(c.perms[i])

\* the call follows an EditItemPerm that failed on its arguments after it had
\* changed the enforcer model
AfterFailedPermEdit ==
    /\ last.op # "none"
    /\ last.prev.op = "EditItemPerm" /\ last.prev.err = "InvalidEditAction"
    /\ last.stale.p # {}

\* C17: EditItemPerm with a bad action, no perms or a perm outside the
\* whitelist returns an error and leaves the persisted policy as it was; and
\* the call after an EditItemPerm that failed behind valid entries persists
\* what it would persist had that call never changed the enforcer model.
C17_FailedEditPersistsNothing ==
    /\ (last.op = "EditItemPerm" /\ BadPermEdit(last.call))
           => (last.err # "nil" /\ disk[TheOrg] = last.pre)
    /\ AfterFailedPermEdit => disk[TheOrg] = last.clean

\* C17 witness: a call that persists a change right after an EditItemPerm that
\* failed behind a valid entry, whose tuple is not in the persisted policy
C17_Witness ==
    /\ AfterFailedPermEdit
    /\ last.err = "nil"
    /\ disk[TheOrg] # last.pre
    /\ last.stale.p \cap disk[TheOrg].p = {}

----------------------------------------------------------------------------
(* Claims on EditFromJSON's failures (SpecConc, SpecEdit) *)

\* the thread of the last completed call holds neither the gate nor a lock
\* once it is outside any call
ReleasedAll ==
    thr[last.by].pc = "idle" =>
        /\ gate # last.by
        /\ \A o \in Orgs : wlock[o] # last.by /\ last.by \notin rlock[o]

\* C18: EditFromJSON given a malformed payload (not an object, no key for the
\* perm, the perm's entry not an object, actors or groups not a list, a list
\* element not a string) returns a structural-validation error, has added or
\* removed no tuple, and has released every lock it took.
C18_MalformedPayloadRejected ==
    (last.op = "EditFromJSON" /\ last.call.data.shape \in MalformedShapes) =>
        /\ last.err = "MalformedACLPayload"
        /\ ~last.touched /\ ~last.saved
        /\ ReleasedAll

\* a well-formed payload naming an actor or a group that does not exist
Unresolved(data) ==
    /\ data.shape = "ok"
    /\ \/ \E i \in 1..Len(data.actors) : ~GetActorFound(data.actors[i])
       \/ \E i \in 1..Len(data.groups) : ~GroupFound(data.groups[i])

\* the call follows an EditFromJSON that failed on an unresolved name after it
\* had changed the enforcer model
AfterFailedEdit ==
    /\ last.op # "none"
    /\ last.prev.op = "EditFromJSON" /\ last.prev.err = "BadRequest"
    /\ last.stale.p # {}

\* C19: EditFromJSON naming an actor or a group that cannot be resolved
\* returns an error, the bad-request error when the reload succeeded, and
\* leaves the persisted policy as it was; and the call after it persists what
\* it would persist had the failed call never changed the enforcer model.
C19_UnresolvedPersistsNothing ==
    /\ (last.op = "EditFromJSON" /\ Unresolved(last.call.data))
           => /\ last.err # "nil"
              /\ last.call.io = "ok" => last.err = "BadRequest"
              /\ disk[TheOrg] = last.pre
    /\ AfterFailedEdit => disk[TheOrg] = last.clean

\* C19 witness: a call that persists a change right after an EditFromJSON
\* that failed on an unresolved name; on the tuples that call had added or
\* removed in memory the persisted policy is as before
C19_Witness ==
    /\ AfterFailedEdit
    /\ last.err = "nil"
    /\ disk[TheOrg] # last.pre
    /\ \A t \in last.stale.p : (t \in disk[TheOrg].p) <=> (t \in last.pre.p)

----------------------------------------------------------------------------
(* Claims on reload and save failures (SpecEdit) *)

\* a RenameItemACL call that found no tuple under the old name: it returns
\* before its save
RenamedNothing ==
    /\ last.op = "RenameItemACL"
    /\ {t \in last.pre.p : /\ t[condNamePos] = last.call.oldName
                           /\ t[condKindPos] = ContainerKind(last.call.item)
                           /\ t[condSubkindPos] = ContainerType(last.call.item)} = {}

\* a reload of the call completed last failed
ReloadFailed == last.op # "none" /\ last.call.io \in {"loadFail", "innerLoadFail"}

\* the save of the call completed last failed, or the call returned an error
\* before it
SaveFailed == last.op # "none" /\ last.call.io = "saveFail" /\ ~RenamedNothing

\* C20: a call during which a reload or the save fails returns an error, and
\* when a reload failed the persisted policy is the one that was on disk.
C20_FailuresSurfaced ==
    /\ (ReloadFailed \/ SaveFailed) => last.err # "nil"
    /\ ReloadFailed => disk[TheOrg] = last.pre

----------------------------------------------------------------------------
(* GetItemACL *)

\* largest number of tuples in an initial policy of the snapshot model
MaxACLSeed == 3

\* an ACL's Perms map with no entry
NoPerms == [k \in {} |-> {}]

\* a set of tuples as a list, in one order
RECURSIVE Listed(_)
Listed(S) ==
    IF S = {} THEN <<>>
    ELSE LET x == CHOOSE y \in S : TRUE IN <<x>> \o Listed(S \ {x})

\* a subject is in a list of subjects (util.StringPresentInSlice)
Present(x, list) == \E i \in 1..Len(list) : list[i] = x

\* mutant: the list is returned as it is
RemoveDupStrings_Keep(strs) == strs

\* util.RemoveDupStrings: the list without its duplicates
RECURSIVE RemoveDupStrings(_)
RemoveDupStrings(strs) ==
    IF strs = <<>> THEN <<>>
    ELSE LET front == RemoveDupStrings(SubSeq(strs, 1, Len(strs) - 1))
             x == strs[Len(strs)]
         IN IF Present(x, front) THEN front ELSE Append(front, x)

itemCompare(i, pol) ==
    pol[condKindPos] = ContainerKind(i) /\ pol[condSubkindPos] = ContainerType(i)

genCompare(i, pol) ==
    IF ContainerKind(i) = "containers" /\ ContainerType(i) = "containers"
    THEN FALSE
    ELSE pol[condKindPos] = ContainerKind(i)

\* the comparer passed to assembleACL, by name
Compare(comparer, i, pol) ==
    IF comparer = "itemCompare" THEN itemCompare(i, pol) ELSE genCompare(i, pol)

\* one tuple that passed the comparer and is no deny added to the map
Assembled(acc, p) ==
    LET perm == p[condPermPos]
        subj == p[condGroupPos]
        cur == IF perm \in DOMAIN acc THEN acc[perm]
               ELSE [Perm |-> perm, Effect |-> p[condEffectPos],
                     Actors |-> <<>>, Groups |-> <<>>]
        new == IF HasPrefix(subj, RolePrefix)
               THEN [cur EXCEPT !.Groups = Append(@, TrimPrefix(subj, RolePrefix))]
               ELSE [cur EXCEPT !.Actors = Append(@, subj)]
    IN [k \in DOMAIN acc \cup {perm} |-> IF k = perm THEN new ELSE acc[k]]

\* mutant: tuples of effect deny are assembled like the others
RECURSIVE assembleACL_KeepDeny(_, _, _, _)
assembleACL_KeepDeny(item, filtered, comparer, n) ==
    IF n = 0 THEN NoPerms
    ELSE LET acc == assembleACL_KeepDeny(item, filtered, comparer, n - 1) IN
         IF ~Compare(comparer, item, filtered[n]) THEN acc
         ELSE Assembled(acc, filtered[n])

\* assembleACL over the first n tuples of filtered: perm -> ACLItem, a nil
\* list being the empty one
RECURSIVE assembleACL(_, _, _, _)
assembleACL(item, filtered, comparer, n) ==
    IF n = 0 THEN NoPerms
    ELSE LET acc == assembleACL(item, filtered, comparer, n - 1) IN
         IF ~Compare(comparer, item, filtered[n]) THEN acc
         ELSE IF filtered[n][condEffectPos] = denyEffect THEN acc
         ELSE Assembled(acc, filtered[n])

\* "Override general permissions with the specifics": the loop over
\* itemPerms.Perms, when every key of it is a key of genPerms.Perms
Override(genPerms, itemPerms) ==
    [k \in DOMAIN genPerms |->
        IF k \in DOMAIN itemPerms
        THEN [Perm |-> itemPerms[k].Perm, Effect |-> itemPerms[k].Effect,
              Actors |-> IF itemPerms[k].Actors # <<>> THEN itemPerms[k].Actors
                         ELSE genPerms[k].Actors,
              Groups |-> IF itemPerms[k].Groups # <<>> THEN itemPerms[k].Groups
                         ELSE genPerms[k].Groups]
        ELSE genPerms[k]]

\* the last loop: the superuser appended where absent, duplicates removed
WithDefaultUser(perms) ==
    [k \in DOMAIN perms |->
        [perms[k] EXCEPT
            !.Actors = RemoveDupStrings(IF Present(Str(DefaultUser), @) THEN @
                                        ELSE Append(@, Str(DefaultUser))),
            !.Groups = RemoveDupStrings(@)]]

\* what GetItemACL returns
ACLResult(err, acl, itemPerms, genPerms) ==
    [err |-> err, acl |-> acl, itemPerms |-> itemPerms, genPerms |-> genPerms]

\* the body of GetItemACL after a successful reload: the error ("nil": none),
\* the snapshot returned and the two interim snapshots. genPerms.Perms[k] of a
\* key the map does not hold is a nil pointer, and writing its field panics.
GetItemACLLoaded(pol, item) ==
    LET filteredItem == Listed(GetFilteredPolicy(pol, condNamePos, GetName(item)))
        filteredType ==
            IF ContainerKind(item) = "groups"
            THEN Listed(GetFilteredPolicy(pol, condNamePos, DefaultName))
            ELSE Listed(GetFilteredPolicy(pol, condSubkindPos, ContainerType(item)))
        itemPerms == assembleACL(item, filteredItem, "itemCompare", Len(filteredItem))
        genPerms == assembleACL(item, filteredType, "genCompare", Len(filteredType))
    IN IF filteredItem = <<>> /\ filteredType = <<>>
       THEN ACLResult("NotFound", NoPerms, NoPerms, NoPerms)
       ELSE IF ContainerKind(item) = "containers" /\ ContainerType(item) = "containers"
       THEN ACLResult("nil", WithDefaultUser(itemPerms), itemPerms, genPerms)
       ELSE IF ~(DOMAIN itemPerms \subseteq DOMAIN genPerms)
       THEN ACLResult("panic", NoPerms, itemPerms, genPerms)
       ELSE ACLResult("nil", WithDefaultUser(Override(genPerms, itemPerms)),
                      itemPerms, genPerms)

----------------------------------------------------------------------------
(* Snapshot model: GetItemACL as one step on a policy drawn in Init *)

pivotal == User(DefaultUser)

\* an item of another kind that has node1's name
node1Group == Item("groups", "groups", "node1")

\* a node with no tuple of its own
node3 == Item("containers", "nodes", "node3")

ACLItems == {node1, node2, node3, adminsItem, box, node1Group}

ACLSeedTuples ==
    {buildEnforcingSlice(it, mb, "read") :
        it \in {node1, node2}, mb \in {alice, ops, pivotal}}
    \cup {buildEnforcingSlice(node1, admins, "update"),
          [buildEnforcingSlice(node1, bob, "read") EXCEPT ![condEffectPos] = denyEffect],
          [buildEnforcingSlice(node2, bob, "read") EXCEPT ![condEffectPos] = denyEffect],
          general(buildEnforcingSlice(node1, admins, "read")),
          buildEnforcingSlice(adminsItem, alice, "read"),
          buildEnforcingSlice(adminsItem, ops, "update"),
          buildDenySlice(adminsItem, "read"),
          general(buildEnforcingSlice(adminsItem, admins, "read")),
          general(buildEnforcingSlice(adminsItem, bob, "read")),
          buildEnforcingSlice(box, alice, "read"),
          buildEnforcingSlice(box, ops, "read")}

ACLCalls == {[item |-> it, loadOk |-> ok] : it \in ACLItems, ok \in BOOLEAN}

InitACL ==
    /\ \E ts \in UpTo(ACLSeedTuples, MaxACLSeed) :
          disk = [o \in Orgs |-> IF o = TheOrg THEN [p |-> ts, g |-> {}] ELSE EmptyPolicy]
    /\ mem = disk
    /\ assoc = {}
    /\ usingDB = FALSE
    /\ last = [op |-> "none"]
    /\ InitLocks
    /\ calls = 0

\* GetItemACL(item) on TheOrg's Checker, start to return: gate, read lock,
\* reload, assembly, release
GetItemACL(c) ==
    /\ LocksFree
    /\ calls = 0
    /\ mem' = [mem EXCEPT ![TheOrg] = LoadPolicy(disk[TheOrg], c.loadOk)]
    /\ last' = [op |-> "GetItemACL", call |-> c, pre |-> disk[TheOrg],
                res |-> IF c.loadOk THEN GetItemACLLoaded(mem'[TheOrg], c.item)
                        ELSE ACLResult("PolicyLoadError", NoPerms, NoPerms, NoPerms)]
    /\ calls' = calls + 1
    /\ UNCHANGED <<disk, assoc, usingDB, concVars>>

NextACL == \E c \in ACLCalls : GetItemACL(c)

SpecACL == InitACL /\ [][NextACL]_vars

----------------------------------------------------------------------------
(* Claims on GetItemACL (SpecACL) *)

\* a GetItemACL call has reloaded the policy
Assembling == last.op = "GetItemACL" /\ last.call.loadOk

\* a GetItemACL call has returned a snapshot
Snapshot == last.op = "GetItemACL" /\ last.res.err = "nil"

\* the tuples of the policy before the call on the item: name, kind and type
ItemPart == OnItem(last.pre, last.call.item)

\* the tuples of the policy before the call that the general snapshot is
\* assembled from
GenPart ==
    LET it == last.call.item IN
    IF ContainerKind(it) = "groups"
    THEN {t \in last.pre.p : t[condNamePos] = DefaultName /\ t[condKindPos] = "groups"}
    ELSE IF ContainerKind(it) = "containers" /\ ContainerType(it) = "containers"
    THEN {}
    ELSE {t \in last.pre.p : /\ t[condSubkindPos] = ContainerType(it)
                             /\ t[condKindPos] = ContainerKind(it)}

\* the subjects of the allow tuples of ts for perm k
Allowing(ts, k) ==
    {t[condGroupPos] : t \in {u \in ts : u[condPermPos] = k /\ u[condEffectPos] = enforceEffect}}

\* the subjects an ACL entry lists: its actors, and its groups as roles
Listing(e) ==
    {e.Actors[i] : i \in 1..Len(e.Actors)}
    \cup {<<RolePrefix>> \o e.Groups[i] : i \in 1..Len(e.Groups)}

\* C21: no deny tuple contributes to a snapshot: in the item-specific and in
\* the general part a subject is listed under a perm only if an allow tuple of
\* that part names it for the perm, and in the snapshot returned every
\* subject but the superuser is named by an allow tuple of one of the parts.
C21_DenyNeverListed ==
    /\ Assembling =>
          /\ \A k \in DOMAIN last.res.itemPerms :
                Listing(last.res.itemPerms[k]) \subseteq Allowing(ItemPart, k)
          /\ \A k \in DOMAIN last.res.genPerms :
                Listing(last.res.genPerms[k]) \subseteq Allowing(GenPart, k)
    /\ Snapshot =>
          \A k \in DOMAIN last.res.acl :
              /\ Allowing(ItemPart \cup GenPart, k) # {}
              /\ Listing(last.res.acl[k]) \ {Str(DefaultUser)}
                     \subseteq Allowing(ItemPart \cup GenPart, k)

\* C21 witness: a snapshot was returned with an entry for a perm for which the
\* item has a deny tuple, and for a perm for which the general part has one
C21_Witness ==
    /\ Snapshot
    /\ \E t \in ItemPart : /\ t[condEffectPos] = denyEffect
                           /\ t[condPermPos] \in DOMAIN last.res.acl
    /\ \E t \in GenPart \ ItemPart : /\ t[condEffectPos] = denyEffect
                                     /\ t[condPermPos] \in DOMAIN last.res.acl

\* the names of a list
Names(list) == {list[i] : i \in 1..Len(list)}

\* C22: for every perm of the item-specific snapshot GetItemACL returns a
\* snapshot with an entry for the perm whose actors (the superuser aside) and
\* groups are those of the item-specific entry alone, whether the general
\* snapshot has an entry for the perm or not.
C22_SpecificReplacesGeneral ==
    Assembling =>
        \A k \in DOMAIN last.res.itemPerms :
            /\ last.res.err = "nil"
            /\ k \in DOMAIN last.res.acl
            /\ Names(last.res.acl[k].Actors) \ {Str(DefaultUser)}
                   = Names(last.res.itemPerms[k].Actors) \ {Str(DefaultUser)}
            /\ Names(last.res.acl[k].Groups) = Names(last.res.itemPerms[k].Groups)

\* no name is in the list twice
NoDuplicate(list) == \A i, j \in 1..Len(list) : list[i] = list[j] => i = j

C24_NotFoundWhenEmpty ==
    Assembling =>
        /\ (ItemPart = {} /\ GenPart = {}) => last.res.err = "NotFound"
        /\ last.res.err = "nil" => last.res.acl # NoPerms

----------------------------------------------------------------------------
(* Role membership and CreatorOnly *)

\* largest number of tuples in an initial policy of the membership model
MaxRoleSeed == 2

\* number of calls made one after another in the membership model
MaxRoleCalls == 2

\* mutant: the edge is not added
AddRoleForUser_Nothing(pol, user, role) == pol

\* casbin's role calls on the membership edges <<user, role>>
AddRoleForUser(pol, user, role) == [pol EXCEPT !.g = @ \cup {<<user, role>>}]

DeleteRoleForUser(pol, user, role) == [pol EXCEPT !.g = @ \ {<<user, role>>}]

\* mutant: the user's tuples go with the user's edges
DeleteRolesForUser_AndGrants(pol, user) ==
    [p |-> {t \in pol.p : t[condGroupPos] # user}, g |-> {e \in pol.g : e[1] # user}]

DeleteRolesForUser(pol, user) == [pol EXCEPT !.g = {e \in @ : e[1] # user}]

\* DeleteRole: the edges to the role and the tuples of the role
DeleteRole(pol, role) ==
    [p |-> pol.p \ GetFilteredPolicy(pol, condGroupPos, role),
     g |-> {e \in pol.g : e[2] # role}]

\* the loop of AddMembers over the members it is given
RECURSIVE AddEach(_, _, _)
AddEach(pol, gRole, adding) ==
    IF adding = {} THEN pol
    ELSE LET mb == CHOOSE x \in adding : TRUE IN
         AddEach(AddRoleForUser(pol, ACLName(mb), ACLName(gRole)), gRole, adding \ {mb})

\* the loop of RemoveMembers
RECURSIVE RemoveEach(_, _, _)
RemoveEach(pol, gRole, removing) ==
    IF removing = {} THEN pol
    ELSE LET mb == CHOOSE x \in removing : TRUE IN
         RemoveEach(DeleteRoleForUser(pol, ACLName(mb), ACLName(gRole)), gRole,
                    removing \ {mb})

\* AddMembers(gRole, adding) from the enforcer model m and the file d
AddMembersRun(m, d, gRole, adding, io) ==
    IF io = "loadFail" THEN Outcome(LoadPolicy(d, FALSE), d, "PolicyLoadError")
    ELSE Save(AddEach(LoadPolicy(d, TRUE), gRole, adding), d, io)

RemoveMembersRun(m, d, gRole, removing, io) ==
    IF io = "loadFail" THEN Outcome(LoadPolicy(d, FALSE), d, "PolicyLoadError")
    ELSE Save(RemoveEach(LoadPolicy(d, TRUE), gRole, removing), d, io)

\* AddACLRole(gRole): its own reload, then AddMembers with the role's members
\* (io "innerLoadFail": the reload of AddMembers fails)
AddACLRoleRun(m, d, gRole, io) ==
    IF io = "loadFail" THEN Outcome(LoadPolicy(d, FALSE), d, "PolicyLoadError")
    ELSE AddMembersRun(LoadPolicy(d, TRUE), d, gRole, AllMembers(gRole),
                       IF io = "innerLoadFail" THEN "loadFail" ELSE io)

RemoveACLRoleRun(m, d, gRole, io) ==
    IF io = "loadFail" THEN Outcome(LoadPolicy(d, FALSE), d, "PolicyLoadError")
    ELSE Save(DeleteRole(LoadPolicy(d, TRUE), ACLName(gRole)), d, io)

RemoveUserRun(m, d, u, io) ==
    IF io = "loadFail" THEN Outcome(LoadPolicy(d, FALSE), d, "PolicyLoadError")
    ELSE Save(DeleteRolesForUser(LoadPolicy(d, TRUE), ACLName(u)), d, io)

\* mutant: the loop stops after the first permission
RECURSIVE CreatorPerms_FirstOnly(_, _, _, _, _, _)
CreatorPerms_FirstOnly(m, d, item, creator, k, io) ==
    IF k > 1 THEN Outcome(m, d, "nil")
    ELSE EditItemPermRun(m, d, item, creator, <<DefaultACLs[k]>>, addPerm,
                         IF io = "innerLoadFail" THEN "loadFail" ELSE io)

\* the loop of CreatorOnly from the k-th default permission on: one
\* EditItemPerm call each, the first error returned (io "innerLoadFail": the
\* reload of an EditItemPerm call fails)
RECURSIVE CreatorPerms(_, _, _, _, _, _)
CreatorPerms(m, d, item, creator, k, io) ==
    IF k > Len(DefaultACLs) THEN Outcome(m, d, "nil")
    ELSE LET r == EditItemPermRun(m, d, item, creator, <<DefaultACLs[k]>>, addPerm,
                                  IF io = "innerLoadFail" THEN "loadFail" ELSE io)
         IN IF r.err # "nil" THEN r
            ELSE CreatorPerms(r.mem, r.disk, item, creator, k + 1, io)

CreatorOnlyRun(m, d, item, creator, io) ==
    IF io = "loadFail" THEN Outcome(LoadPolicy(d, FALSE), d, "PolicyLoadError")
    ELSE CreatorPerms(LoadPolicy(d, TRUE), d, item, creator, 1, io)

----------------------------------------------------------------------------
(* Membership model: whole calls, one after another, on a policy drawn in Init *)

RoleSeedTuples ==
    {buildEnforcingSlice(node1, ops, "read"),
     general(buildEnforcingSlice(node1, ops, "read")),
     buildEnforcingSlice(node1, admins, "update"),
     buildEnforcingSlice(node1, alice, "update"),
     buildEnforcingSlice(node2, bob, "read"),
     buildEnforcingSlice(adminsItem, admins, "grant")}

RoleSeedEdges ==
    { {},
      {<<ACLName(alice), ACLName(ops)>>},
      {<<ACLName(alice), ACLName(ops)>>, <<ACLName(bob), ACLName(ops)>>},
      {<<ACLName(alice), ACLName(ops)>>, <<ACLName(alice), ACLName(admins)>>},
      {<<ACLName(bob), ACLName(admins)>>, <<ACLName(ops), ACLName(admins)>>},
      {<<ACLName(web), ACLName(ops)>>, <<ACLName(alice), ACLName(admins)>>} }

InitRole ==
    /\ \E ts \in UpTo(RoleSeedTuples, MaxRoleSeed), g \in RoleSeedEdges :
          disk = [o \in Orgs |-> IF o = TheOrg THEN [p |-> ts, g |-> g] ELSE EmptyPolicy]
    /\ mem = disk
    /\ assoc = {}
    /\ usingDB = FALSE
    /\ last = [op |-> "none"]
    /\ InitLocks
    /\ calls = 0

\* the AddMembers and RemoveMembers calls made
MembersCalls ==
    {[role |-> r, members |-> ms, io |-> "ok"] :
        r \in {opsRole, adminsRole}, ms \in {{}, {alice}, {alice, bob}, {web}}}
    \cup {[role |-> opsRole, members |-> {bob}, io |-> io] : io \in {"loadFail", "saveFail"}}

\* the AddACLRole and RemoveACLRole calls made
RoleCalls ==
    {[role |-> r, io |-> "ok"] : r \in {opsRole, adminsRole}}
    \cup {[role |-> adminsRole, io |-> io] : io \in {"loadFail", "innerLoadFail", "saveFail"}}

RemoveUserCalls ==
    {[member |-> mb, io |-> "ok"] : mb \in {alice, bob, ops}}
    \cup {[member |-> alice, io |-> io] : io \in {"loadFail", "saveFail"}}

CreatorCalls ==
    {[item |-> it, creator |-> cr, io |-> "ok"] : it \in {node1, node2}, cr \in {alice, web}}
    \cup {[item |-> node1, creator |-> alice, io |-> io] :
            io \in {"loadFail", "innerLoadFail", "saveFail"}}

\* AddMembers on TheOrg's Checker, start to return
AddMembers(c) ==
    /\ LocksFree
    /\ calls < MaxRoleCalls
    /\ LET r == AddMembersRun(mem[TheOrg], disk[TheOrg], c.role, c.members, c.io) IN
       /\ mem' = [mem EXCEPT ![TheOrg] = r.mem]
       /\ disk' = [disk EXCEPT ![TheOrg] = r.disk]
       /\ last' = [op |-> "AddMembers", call |-> c, pre |-> disk[TheOrg], err |-> r.err]
    /\ calls' = calls + 1
    /\ UNCHANGED <<assoc, usingDB, concVars>>

\* RemoveMembers on TheOrg's Checker, start to return
RemoveMembers(c) ==
    /\ LocksFree
    /\ calls < MaxRoleCalls
    /\ LET r == RemoveMembersRun(mem[TheOrg], disk[TheOrg], c.role, c.members, c.io) IN
       /\ mem' = [mem EXCEPT ![TheOrg] = r.mem]
       /\ disk' = [disk EXCEPT ![TheOrg] = r.disk]
       /\ last' = [op |-> "RemoveMembers", call |-> c, pre |-> disk[TheOrg], err |-> r.err]
    /\ calls' = calls + 1
    /\ UNCHANGED <<assoc, usingDB, concVars>>

\* AddACLRole on TheOrg's Checker, start to return
AddACLRole(c) ==
    /\ LocksFree
    /\ calls < MaxRoleCalls
    /\ LET r == AddACLRoleRun(mem[TheOrg], disk[TheOrg], c.role, c.io) IN
       /\ mem' = [mem EXCEPT ![TheOrg] = r.mem]
       /\ disk' = [disk EXCEPT ![TheOrg] = r.disk]
       /\ last' = [op |-> "AddACLRole", call |-> c, pre |-> disk[TheOrg], err |-> r.err]
    /\ calls' = calls + 1
    /\ UNCHANGED <<assoc, usingDB, concVars>>

\* RemoveACLRole on TheOrg's Checker, start to return
RemoveACLRole(c) ==
    /\ LocksFree
    /\ calls < MaxRoleCalls
    /\ LET r == RemoveACLRoleRun(mem[TheOrg], disk[TheOrg], c.role, c.io) IN
       /\ mem' = [mem EXCEPT ![TheOrg] = r.mem]
       /\ disk' = [disk EXCEPT ![TheOrg] = r.disk]
       /\ last' = [op |-> "RemoveACLRole", call |-> c, pre |-> disk[TheOrg], err |-> r.err]
    /\ calls' = calls + 1
    /\ UNCHANGED <<assoc, usingDB, concVars>>

\* RemoveUser on TheOrg's Checker, start to return
RemoveUser(c) ==
    /\ LocksFree
    /\ calls < MaxRoleCalls
    /\ LET r == RemoveUserRun(mem[TheOrg], disk[TheOrg], c.member, c.io) IN
       /\ mem' = [mem EXCEPT ![TheOrg] = r.mem]
       /\ disk' = [disk EXCEPT ![TheOrg] = r.disk]
       /\ last' = [op |-> "RemoveUser", call |-> c, pre |-> disk[TheOrg], err |-> r.err]
    /\ calls' = calls + 1
    /\ UNCHANGED <<assoc, usingDB, concVars>>

\* CreatorOnly on TheOrg's Checker, start to return
CreatorOnly(c) ==
    /\ LocksFree
    /\ calls < MaxRoleCalls
    /\ LET r == CreatorOnlyRun(mem[TheOrg], disk[TheOrg], c.item, c.creator, c.io) IN
       /\ mem' = [mem EXCEPT ![TheOrg] = r.mem]
       /\ disk' = [disk EXCEPT ![TheOrg] = r.disk]
       /\ last' = [op |-> "CreatorOnly", call |-> c, pre |-> disk[TheOrg], err |-> r.err]
    /\ calls' = calls + 1
    /\ UNCHANGED <<assoc, usingDB, concVars>>

NextRole ==
    \/ \E c \in MembersCalls : AddMembers(c)
    \/ \E c \in MembersCalls : RemoveMembers(c)
    \/ \E c \in RoleCalls : AddACLRole(c)
    \/ \E c \in RoleCalls : RemoveACLRole(c)
    \/ \E c \in RemoveUserCalls : RemoveUser(c)
    \/ \E c \in CreatorCalls : CreatorOnly(c)

SpecRole == InitRole /\ [][NextRole]_vars

----------------------------------------------------------------------------
(* Claims on role membership and CreatorOnly (SpecRole) *)

\* the call completed last was op and returned no error
Succeeded(op) == last.op = op /\ last.err = "nil"

\* the edges between the members listed in the call and its role
ListedEdges == {<<ACLName(mb), ACLName(last.call.role)>> : mb \in last.call.members}

\* the item a tuple is on
ItemOf(t) == Item(t[condKindPos], t[condSubkindPos], t[condNamePos])

\* the allow tuples of the persisted policy whose subject is the call's role
RoleGrants ==
    {t \in disk[TheOrg].p : /\ t[condGroupPos] = ACLName(last.call.role)
                            /\ t[condEffectPos] = enforceEffect}

\* the items of the model that a tuple grants a permission on: the item it
\* names, and for a tuple on $$default$$ the items it is the general rule of
Covered(t) ==
    {ItemOf(t)}
    \cup {it \in {node1, node2, adminsItem} :
            LET gen == general(buildEnforcingSlice(it, alice, t[condPermPos])) IN
            \A i \in condSubkindPos..condEffectPos : gen[i] = t[i]}

\* the edges and tuples after a successful AddMembers or RemoveMembers
MembersFrame ==
    /\ Succeeded("AddMembers") => ListedEdges \subseteq disk[TheOrg].g
    /\ Succeeded("RemoveMembers") => ListedEdges \cap disk[TheOrg].g = {}
    /\ (Succeeded("AddMembers") \/ Succeeded("RemoveMembers")) =>
          /\ disk[TheOrg].g \ ListedEdges = last.pre.g \ ListedEdges
          /\ disk[TheOrg].p = last.pre.p

\* CheckItemPerm(it, mb, perm) on the persisted policy returns (true, nil)
Allows(it, mb, perm) ==
    CheckItemPermLoaded(disk[TheOrg], assoc, TheOrg, it, mb, perm) = Result(TRUE, "nil")

\* C25 as stated: after a successful AddMembers every listed member has an
\* edge to the role and CheckItemPerm allows it whatever the role is granted,
\* by a tuple on the item or by the general rule of the item; after a
\* successful RemoveMembers no listed member has an edge to the role; the
\* other edges and the grant tuples are unchanged.
C25_Original ==
    /\ MembersFrame
    /\ Succeeded("AddMembers") =>
          \A mb \in last.call.members, t \in RoleGrants :
              \A it \in Covered(t) : Allows(it, mb, t[condPermPos])

\* C25 amended: as stated, but what the general rule grants the role on an
\* item is allowed to a listed member only when testForAnyPol finds no tuple of
\* the member's own on that item.
C25_MembersEdges ==
    /\ MembersFrame
    /\ Succeeded("AddMembers") =>
          \A mb \in last.call.members, t \in RoleGrants :
              /\ Allows(ItemOf(t), mb, t[condPermPos])
              /\ \A it \in Covered(t) :
                    ~testForAnyPol(disk[TheOrg], it, mb, t[condPermPos])
                        => Allows(it, mb, t[condPermPos])

\* C25 witness: AddMembers has added an edge to a role, to a policy with
\* another edge, and the general rule grants the role a permission on an item
\* the member has no tuple on
C25_Witness ==
    /\ Succeeded("AddMembers")
    /\ ListedEdges \ last.pre.g # {}
    /\ last.pre.g # {}
    /\ \E mb \in last.call.members, t \in RoleGrants :
          \E it \in Covered(t) \ {ItemOf(t)} :
              ~testForAnyPol(disk[TheOrg], it, mb, t[condPermPos])

----------------------------------------------------------------------------
(* Claims on AddACLRole and RemoveACLRole (SpecConc) *)

\* the number of deferred calls d that thread t has stacked
Deferred(t, d) ==
    Cardinality({i \in 1..Len(thr[t].defers) : thr[t].defers[i] = d})

\* thread t is in AddACLRole or RemoveACLRole
InRoleCall(t) == Running(t) /\ thr[t].call.op \in {"AddACLRole", "RemoveACLRole"}

\* C26: AddACLRole leaves an edge to the role for every member of the role and
\* RemoveACLRole leaves none, no member being resolved as belonging to the
\* role; a thread in either holds the gate and the write lock, each acquired
\* once, at every reload, role call and save, and never waits for the gate or
\* the lock that it holds itself.
C26_RoleUnderOneAcquisition ==
    /\ (last.op = "AddACLRole" /\ last.err = "nil" /\ calls = 1) =>
          /\ disk[TheOrg].g = last.pre.g \cup {<<ACLName(mb), ACLName(last.call.role)>> :
                                                   mb \in AllMembers(last.call.role)}
          /\ disk[TheOrg].p = last.pre.p
    /\ (last.op = "RemoveACLRole" /\ last.err = "nil" /\ calls = 1) =>
          /\ \A e \in disk[TheOrg].g : e[2] # ACLName(last.call.role)
          /\ \A mb \in AllMembers(last.call.role) :
                ~HasLink(disk[TheOrg].g, ACLName(mb), ACLName(last.call.role))
          /\ {e \in disk[TheOrg].g : e[2] # ACLName(last.call.role)}
                 = {e \in last.pre.g : e[2] # ACLName(last.call.role)}
    /\ \A t \in Threads :
          InRoleCall(t) =>
              /\ Deferred(t, "releaseChanLock") <= 1
              /\ Deferred(t, "Unlock") <= 1
              /\ At(t, "waitForChanLock") => gate # t
              /\ At(t, "Lock") => wlock[OrgOf(t)] # t
              /\ (Cur(t).i \in WorkSteps \cup {"LoadPolicy", "SavePolicy", "checkTx"}) =>
                    /\ gate = t
                    /\ wlock[OrgOf(t)] = t
                    /\ inTransaction[OrgOf(t)]

\* C26 witness: AddACLRole, run with no other call, has returned after adding
\* an edge through AddMembers
C26_Witness ==
    /\ last.op = "AddACLRole" /\ last.err = "nil" /\ calls = 1
    /\ last.pre.g # disk[TheOrg].g
    /\ LocksFree

----------------------------------------------------------------------------
(* Claims on RemoveUser and CreatorOnly (SpecRole) *)

\* the edges of the policy g that make the member of the call a member
OwnEdges(g) == {e \in g : e[1] = ACLName(last.call.member)}

\* C27: after a successful RemoveUser(member) the persisted policy has no edge
\* from the member and the member reaches no role; the edges of the other
\* members and every tuple, those of the member included, are unchanged.
C27_RemoveUserOnlyEdges ==
    Succeeded("RemoveUser") =>
        /\ OwnEdges(disk[TheOrg].g) = {}
        /\ Reach(disk[TheOrg].g, {ACLName(last.call.member)}, Cardinality(disk[TheOrg].g))
               = {ACLName(last.call.member)}
        /\ disk[TheOrg].g = last.pre.g \ OwnEdges(last.pre.g)
        /\ disk[TheOrg].p = last.pre.p

\* C27 witness: RemoveUser has removed an edge of a member that is the subject
\* of a tuple, and an edge of another member is left
C27_Witness ==
    /\ Succeeded("RemoveUser")
    /\ OwnEdges(last.pre.g) # {}
    /\ disk[TheOrg].g # {}
    /\ GetFilteredPolicy(disk[TheOrg], condGroupPos, ACLName(last.call.member)) # {}

\* the specific allow tuples of the creator on the item, one for each default
\* permission
CreatorTuples ==
    {buildEnforcingSlice(last.call.item, last.call.creator, DefaultACLs[k]) :
        k \in 1..Len(DefaultACLs)}

\* C28: after a successful CreatorOnly(item, creator) the persisted policy
\* holds the creator's specific allow tuple on the item for every default
\* permission, CheckItemPerm returns (true, nil) for each of them, and the
\* policy is otherwise as before: what one EditItemPerm add call for each
\* permission leaves.
C28_CreatorHasDefaults ==
    Succeeded("CreatorOnly") =>
        /\ CreatorTuples \subseteq disk[TheOrg].p
        /\ \A k \in 1..Len(DefaultACLs) :
              Allows(last.call.item, last.call.creator, DefaultACLs[k])
        /\ disk[TheOrg].p = last.pre.p \cup CreatorTuples
        /\ disk[TheOrg].g = last.pre.g

\* C28 witness: CreatorOnly has added the five tuples to a policy that had
\* none of them and had other tuples
C28_Witness ==
    /\ Succeeded("CreatorOnly")
    /\ Cardinality(disk[TheOrg].p \ last.pre.p) = Len(DefaultACLs)
    /\ last.pre.p # {}

----------------------------------------------------------------------------
(* LoadACL and initializePolicy, step by step. In this model disk[o] is the
   organization's policy file as the file system sees it: whether it exists
   and what it holds ("empty", "skeleton": defaultPolicySkel, "policy": what a
   Checker saved, "overwritten": the skeleton written over the start of a
   saved policy); mem[o] tells whether org.PermCheck is set. LoadACL takes
   neither the gate nor a lock. *)

\* largest number of LoadACL calls started
MaxInitCalls == 2

NoFile == [exists |-> FALSE, content |-> "none"]
File(content) == [exists |-> TRUE, content |-> content]

\* policyExists: os.Stat finds the file
policyExists(o) == disk[o].exists

InitInit ==
    /\ disk \in [Orgs -> {NoFile, File("skeleton"), File("policy")}]
    /\ mem = [o \in Orgs |-> IF disk[o].exists THEN "checker" ELSE "unset"]
    /\ assoc = {}
    /\ usingDB = FALSE
    /\ last = [op |-> "none"]
    /\ InitLocks
    /\ calls = 0

\* LoadACL(org) returns err to its caller
LoadACLReturns(t, err) ==
    /\ last' = [op |-> "LoadACL", org |-> thr[t].org, err |-> err, by |-> t,
                checked |-> thr[t].checked, existed |-> thr[t].existed,
                wrote |-> thr[t].wrote]
    /\ thr' = [thr EXCEPT ![t] = Idle]

\* a thread calls LoadACL(org)
LoadACLStart(t, o) ==
    /\ thr[t].pc = "idle"
    /\ calls < MaxInitCalls
    /\ thr' = [thr EXCEPT ![t] = [pc |-> "LoadACL", org |-> o, checked |-> FALSE,
                                  existed |-> FALSE, wrote |-> FALSE]]
    /\ calls' = calls + 1
    /\ UNCHANGED <<disk, mem, assoc, usingDB, last, gate, wlock, rlock, inTransaction>>

\* if !policyExists(org, ...) { initializeACL } else { loadPolicyAdapter }
LoadACLExists(t) ==
    /\ thr[t].pc = "LoadACL"
    /\ thr' = [thr EXCEPT ![t].pc = IF policyExists(thr[t].org) THEN "loadPolicyAdapter"
                                    ELSE "initializePolicy"]
    /\ UNCHANGED <<disk, mem, assoc, usingDB, last, gate, wlock, rlock, inTransaction, calls>>

\* initializePolicy: if policyExists(...) { return "already exists" }
InitializePolicy(t) ==
    /\ thr[t].pc = "initializePolicy"
    /\ IF policyExists(thr[t].org)
       THEN LoadACLReturns(t, "Conflict")
       ELSE /\ thr' = [thr EXCEPT ![t].pc = "OpenFile", ![t].checked = TRUE]
            /\ last' = last
    /\ UNCHANGED <<disk, mem, assoc, usingDB, gate, wlock, rlock, inTransaction, calls>>

\* os.OpenFile(policyPath, os.O_RDWR|os.O_CREATE, 0600): the file is created
\* when it is not there and opened as it is when it is
OpenFile(t) ==
    /\ thr[t].pc = "OpenFile"
    /\ \E ok \in BOOLEAN :
          IF ok
          THEN /\ disk' = [disk EXCEPT ![thr[t].org] =
                              IF @.exists THEN @ ELSE File("empty")]
               /\ thr' = [thr EXCEPT ![t].pc = "WriteString",
                                     ![t].existed = policyExists(thr[t].org)]
               /\ last' = last
          ELSE /\ disk' = disk
               /\ LoadACLReturns(t, "OpenError")
    /\ UNCHANGED <<mem, assoc, usingDB, gate, wlock, rlock, inTransaction, calls>>

\* the file's content after defaultPolicySkel is written at its start
Written(content) ==
    IF content \in {"empty", "skeleton"} THEN "skeleton" ELSE "overwritten"

\* p.WriteString(defaultPolicySkel)
WriteString(t) ==
    /\ thr[t].pc = "WriteString"
    /\ \E ok \in BOOLEAN :
          IF ok
          THEN /\ disk' = [disk EXCEPT ![thr[t].org].content = Written(@)]
               /\ thr' = [thr EXCEPT ![t].pc = "loadPolicyAdapter", ![t].wrote = TRUE]
               /\ last' = last
          ELSE /\ disk' = disk
               /\ LoadACLReturns(t, "WriteError")
    /\ UNCHANGED <<mem, assoc, usingDB, gate, wlock, rlock, inTransaction, calls>>

\* loadPolicyAdapter and the rest of LoadACL: without the file an error, with
\* it a Checker over the file becomes org.PermCheck
LoadPolicyAdapter(t) ==
    /\ thr[t].pc = "loadPolicyAdapter"
    /\ IF policyExists(thr[t].org)
       THEN /\ mem' = [mem EXCEPT ![thr[t].org] = "checker"]
            /\ LoadACLReturns(t, "nil")
       ELSE /\ mem' = mem
            /\ LoadACLReturns(t, "CannotLoad")
    /\ UNCHANGED <<disk, assoc, usingDB, gate, wlock, rlock, inTransaction, calls>>

\* a call on the organization's Checker saves its policy to the file
CheckerSaves(o) ==
    /\ mem[o] = "checker"
    /\ policyExists(o)
    /\ disk[o].content # "policy"
    /\ disk' = [disk EXCEPT ![o].content = "policy"]
    /\ UNCHANGED <<mem, assoc, usingDB, last, concVars, calls>>

NextInit ==
    \/ \E t \in Threads, o \in Orgs : LoadACLStart(t, o)
    \/ \E t \in Threads : LoadACLExists(t)
    \/ \E t \in Threads : InitializePolicy(t)
    \/ \E t \in Threads : OpenFile(t)
    \/ \E t \in Threads : WriteString(t)
    \/ \E t \in Threads : LoadPolicyAdapter(t)
    \/ \E o \in Orgs : CheckerSaves(o)

SpecInit == InitInit /\ [][NextInit]_vars

----------------------------------------------------------------------------
(* Claims on policy initialization (SpecInit) *)

\* C29: initializePolicy fails with the conflict error whenever the
\* organization's policy file exists and never opens or writes an existing
\* file; a LoadACL call that initialized the policy created the file and left
\* the skeleton in it.
C29_InitNeverReuses ==
    /\ \A t \in Threads :
          thr[t].pc \in {"WriteString", "loadPolicyAdapter"} /\ thr[t].checked
              => ~thr[t].existed
    /\ (last.op = "LoadACL" /\ last.wrote) => ~last.existed

----------------------------------------------------------------------------
(* Claims on the pinning of the decision (SpecCheck) *)

\* the case of C30: the specific check fails, the item is not of kind groups
\* and a tuple of the doer's own is on the item, whatever its perm
C30_Case ==
    /\ Checked
    /\ ~GrantedTo(last.pre, last.doer,
                  buildEnforcingSlice(last.item, last.doer, last.perm))
    /\ ContainerKind(last.item) # "groups"
    /\ \E t \in OnItem(last.pre, last.item) : t[condGroupPos] = ACLName(last.doer)

\* C30: in that case the general rule is not consulted: CheckItemPerm does not
\* allow, whatever $$default$$ tuple applies to the doer, and returns what the
\* permission-validity test and then the association test give.
C30_PinnedAwayFromGeneral ==
    C30_Case =>
        last.res = IF PermUndefined THEN InvalidPermission
                   ELSE Result(FALSE, testAssociation(assoc, last.doer, TheOrg))

\* C30 witness: denied with a tuple of the doer's own for another perm on the
\* item, although a $$default$$ tuple grants the doer the perm asked
C30_Witness ==
    /\ C30_Case
    /\ GrantedTo(last.pre, last.doer, DefaultOf(last.item, last.doer, last.perm))
    /\ last.res = CleanDeny

----------------------------------------------------------------------------
(* Claims on the sentinel of a groups item the doer holds tuples on (SpecCheck) *)

\* the case of C31: the specific check fails, the item is of kind groups and a
\* tuple of the doer's own is on the item, whatever its perm
C31_Case ==
    /\ Checked
    /\ ~GrantedTo(last.pre, last.doer,
                  buildEnforcingSlice(last.item, last.doer, last.perm))
    /\ ContainerKind(last.item) = "groups"
    /\ \E t \in OnItem(last.pre, last.item) : t[condGroupPos] = ACLName(last.doer)

\* what evaluating the denyall##groups tuple for the call's item and perm gives
SentinelHolds == Enforce(last.pre, buildDenySlice(last.item, last.perm))

\* C31 as claimed: in that case CheckItemPerm evaluates the denyall##groups
\* tuple for the item and perm and returns the result of that evaluation as
\* its outcome.
C31_Original == C31_Case => last.res.allowed = SentinelHolds

\* C31 as amended: in that case the doer's own tuple on the item decides before
\* the sentinel is looked at: the general rule is not consulted and
\* CheckItemPerm does not allow, with or without the sentinel on the item; it
\* returns InvalidPermission when no tuple defines the perm for groups, else
\* NotAssociated or (false, nil) as the association test gives.
C31_OwnTupleBeforeSentinel ==
    C31_Case =>
        /\ ~last.res.allowed
        /\ last.res.err = IF PermUndefined THEN "InvalidPermission"
                          ELSE testAssociation(assoc, last.doer, TheOrg)

\* C31 witness: the sentinel for the perm is on the item, the doer holds a
\* tuple for another perm on it, and the call returns (false, nil)
C31_Witness ==
    /\ C31_Case
    /\ SentinelHolds
    /\ last.res = CleanDeny

----------------------------------------------------------------------------
(* Claims on the reload that precedes acting (SpecConc) *)

\* the steps that evaluate, query or change the rule store
ActingSteps == StoreSteps \ {"LoadPolicy", "LoadPolicyNoErr", "SavePolicy"}

\* C32: a thread about to evaluate, query or change the rule store has
\* reloaded it in this call, and the rule store holds what was persisted at
\* that reload with only the call's own changes since: no other operation has
\* changed it in between. CheckItemPerm so decides on the policy persisted at
\* its reload.
C32_ReloadPrecedesActing ==
    \A t \in Threads :
        (Running(t) /\ Cur(t).i \in ActingSteps) =>
            /\ thr[t].loaded
            /\ mem[OrgOf(t)] = thr[t].want

\* one step of the call that thread t is making
ThreadStep(t) ==
    \/ Enter(t)
    \/ WaitForChanLock(t)
    \/ Lock(t)
    \/ RLock(t)
    \/ SetTx(t)
    \/ CheckTx(t)
    \/ Load(t)
    \/ LoadNoErr(t)
    \/ Work(t)
    \/ SavePolicy(t)
    \/ Leave(t)
    \/ Unwind(t)
    \/ Return(t)

\* the concurrency model under a fair scheduler: a goroutine that can take a
\* step, and stays able to, takes it
SpecConcFair == SpecConc /\ \A t \in Threads : WF_vars(ThreadStep(t))

----------------------------------------------------------------------------
(* Claims on release and termination (SpecConcFair) *)

\* thread t is making a call: running it or returning from it
InCall(t) == thr[t].pc \in {"run", "unwind"}

\* thread t holds the lock of organization o, in either mode
HoldsLock(t, o) == wlock[o] = t \/ t \in rlock[o]

\* nothing of a thread that is making no call is held, the flag is set only
\* under the write lock of a thread in AddACLRole or RemoveACLRole, and the
\* lock of a call that took the gate is released before the gate is
Released ==
    /\ \A t \in Threads :
          ~InCall(t) => gate # t /\ \A o \in Orgs : ~HoldsLock(t, o)
    /\ \A o \in Orgs :
          inTransaction[o] =>
              \E t \in Threads : InRoleCall(t) /\ OrgOf(t) = o /\ wlock[o] = t
    /\ \A t \in Threads :
          (InCall(t) /\ thr[t].call.op # "RemoveUser" /\ HoldsLock(t, OrgOf(t)))
              => gate = t
    /\ \A t \in Threads : (InCall(t) /\ gate = t) => Deferred(t, "releaseChanLock") = 1

----------------------------------------------------------------------------
(* RenameMember *)

\* casbin's GetPermissionsForUser: the tuples whose subject is the name
GetPermissionsForUser(pol, name) == GetFilteredPolicy(pol, condGroupPos, name)

\* the copies RenameMember adds: the old tuples under the member's ACL name
RenamedSubject(oldPolicies, member) ==
    {[p EXCEPT ![condGroupPos] = ACLName(member)] : p \in oldPolicies}

\* RenameMember(member, oldName) from the enforcer model m and the file d
RenameMemberRun(m, d, member, oldName, io) ==
    IF io = "loadFail" THEN Outcome(LoadPolicy(d, FALSE), d, "PolicyLoadError")
    ELSE LET loaded == LoadPolicy(d, TRUE)
             oldPolicies == GetPermissionsForUser(loaded, oldName)
         IN IF oldPolicies = {} THEN Outcome(loaded, d, "nil")
            ELSE Save(RemovePolicies(AddPolicies(loaded, RenamedSubject(oldPolicies, member)),
                                     oldPolicies),
                      d, io)

----------------------------------------------------------------------------
(* Sequence model: whole calls of every mutating operation, one after
   another, on a policy without the sentinel drawn in Init *)

\* largest number of tuples in the initial policy of the sequence model
MaxSeqSeed == 2

staff == Item("groups", "groups", "staff")
adminsNode == Item("containers", "nodes", "admins")

SeqSeedTuples ==
    {buildEnforcingSlice(node1, alice, "read"),
     buildEnforcingSlice(node1, alice, "update"),
     buildEnforcingSlice(node1, bob, "read"),
     buildEnforcingSlice(node1, ops, "read"),
     buildEnforcingSlice(adminsItem, alice, "read"),
     buildEnforcingSlice(adminsItem, admins, "update"),
     general(buildEnforcingSlice(node1, alice, "read"))}

InitSeq ==
    /\ \E ts \in UpTo(SeqSeedTuples, MaxSeqSeed), g \in {{}, EditRoles} :
          disk = [o \in Orgs |-> IF o = TheOrg THEN [p |-> ts, g |-> g] ELSE EmptyPolicy]
    /\ mem = disk
    /\ assoc = {<<"alice", TheOrg>>}
    /\ usingDB = FALSE
    /\ last = [op |-> "none"]
    /\ InitLocks
    /\ calls = 0

\* the RenameMember calls made (the member carries the new name)
RenameMemberCalls ==
    {[member |-> mb, oldName |-> old, io |-> "ok"] :
        mb \in {alice, bob, ops}, old \in {ACLName(alice), ACLName(bob), ACLName(admins)}}
    \cup {[member |-> bob, oldName |-> ACLName(alice), io |-> io] :
            io \in {"loadFail", "saveFail"}}

\* RenameMember on TheOrg's Checker, start to return
RenameMember(c) ==
    /\ LocksFree
    /\ calls < MaxCalls
    /\ LET r == RenameMemberRun(mem[TheOrg], disk[TheOrg], c.member, c.oldName, c.io) IN
       /\ mem' = [mem EXCEPT ![TheOrg] = r.mem]
       /\ disk' = [disk EXCEPT ![TheOrg] = r.disk]
       /\ last' = [op |-> "RenameMember", call |-> c, pre |-> disk[TheOrg], err |-> r.err]
    /\ calls' = calls + 1
    /\ UNCHANGED <<assoc, usingDB, concVars>>

\* the calls of the other operations made in the sequence model
SeqEditCalls ==
    {[item |-> item, perm |-> perm, data |-> data, io |-> "ok"] :
        item \in {node1, adminsItem}, perm \in {"read", "update"},
        data \in {OkPayload(<<"alice">>, <<>>), OkPayload(<<>>, <<"ops">>)}}

SeqEditItemPermCalls ==
    {[item |-> item, member |-> mb, perms |-> <<"read">>, action |-> act, io |-> "ok"] :
        item \in {node1, adminsItem}, mb \in {bob, ops}, act \in {addPerm, removePerm}}

SeqRenameCalls ==
    {[item |-> node2, oldName |-> "node1", io |-> "ok"],
     [item |-> node1, oldName |-> "node1", io |-> "ok"],
     [item |-> staff, oldName |-> "admins", io |-> "ok"],
     [item |-> adminsNode, oldName |-> "admins", io |-> "ok"],
     [item |-> adminsItem, oldName |-> "admins", io |-> "ok"]}

SeqDeleteCalls == {[item |-> item, io |-> "ok"] : item \in {node1, adminsItem}}

SeqMembersCalls == {[role |-> opsRole, members |-> {bob}, io |-> "ok"]}

SeqRoleCalls == {[role |-> opsRole, io |-> "ok"]}

SeqRemoveUserCalls == {[member |-> alice, io |-> "ok"]}

SeqCreatorCalls == {[item |-> it, creator |-> alice, io |-> "ok"] : it \in {node2, adminsItem}}

NextSeq ==
    \/ \E c \in SeqEditItemPermCalls : EditItemPerm(c)
    \/ \E c \in SeqEditCalls : EditFromJSON(c)
    \/ \E c \in SeqRenameCalls : RenameItemACL(c)
    \/ \E c \in RenameMemberCalls : RenameMember(c)
    \/ \E c \in SeqDeleteCalls : DeleteItemACL(c)
    \/ \E c \in SeqMembersCalls : AddMembers(c)
    \/ \E c \in SeqMembersCalls : RemoveMembers(c)
    \/ \E c \in SeqRoleCalls : AddACLRole(c)
    \/ \E c \in SeqRoleCalls : RemoveACLRole(c)
    \/ \E c \in SeqRemoveUserCalls : RemoveUser(c)
    \/ \E c \in SeqCreatorCalls : CreatorOnly(c)

SpecSeq == InitSeq /\ [][NextSeq]_vars

----------------------------------------------------------------------------
(* Claims on the sentinel's kind (SpecSeq) *)

\* the sentinel tuples of a policy
SentinelTuples(pol) == {t \in pol.p : IsSentinel(t)}

\* C34: in every state reached by calls of the mutating operations from a
\* policy without the sentinel, every tuple whose subject is denyall##groups,
\* in the persisted policy and in the enforcer model, has kind groups.
C34_SentinelOnlyOnGroups ==
    \A o \in Orgs :
        \A t \in SentinelTuples(disk[o]) \cup SentinelTuples(mem[o]) :
            t[condKindPos] = "groups"

\* C34 witness: the sentinel is on a groups item after two calls, the second of
\* them a rename, a member rename, a delete or a role operation
C34_Witness ==
    /\ calls = 2
    /\ SentinelTuples(disk[TheOrg]) # {}
    /\ last.op \notin {"EditFromJSON", "EditItemPerm"}
    /\ last.err = "nil"

----------------------------------------------------------------------------
(* Claims on RenameMember (SpecSeq) *)

\* the tuples that had the call's old name as subject before the call
OldSubjectTuples == GetPermissionsForUser(last.pre, last.call.oldName)

\* what the claim says a successful RenameMember leaves in the file: a copy
\* under the member's ACL name of every tuple of the old name, no tuple of the
\* old name, every other tuple and edge as before
MemberMoved ==
    /\ RenamedSubject(OldSubjectTuples, last.call.member) \subseteq disk[TheOrg].p
    /\ GetPermissionsForUser(disk[TheOrg], last.call.oldName) = {}
    /\ disk[TheOrg].p \ RenamedSubject(OldSubjectTuples, last.call.member)
           = last.pre.p \ (OldSubjectTuples \cup RenamedSubject(OldSubjectTuples,
                                                               last.call.member))
    /\ OldSubjectTuples = {} => disk[TheOrg] = last.pre

\* C35: after a successful RenameMember(member, oldName) the persisted policy
\* holds every tuple of oldName under the member's ACL name, the other fields
\* unchanged, holds no tuple with subject oldName, and is otherwise unchanged;
\* it is unchanged when oldName held no tuple.
C35_RenameMemberMoves ==
    (last.op = "RenameMember" /\ last.err = "nil") => MemberMoved

----------------------------------------------------------------------------
(* Claims on the skipped acquisition of AddMembers and RemoveMembers (SpecConc) *)

\* thread t called AddMembers or RemoveMembers itself: not as the nested call
\* of AddACLRole
MembersCall(t) == Running(t) /\ thr[t].call.op \in {"AddMembers", "RemoveMembers"}

\* C36: a thread that called AddMembers or RemoveMembers itself holds the gate
\* and the write lock when it reloads, changes the edges or saves, also when
\* another thread has inTransaction set.
C36_OnlyNestedCallSkips ==
    \A t \in Threads :
        (/\ MembersCall(t)
         /\ Cur(t).i \in {"LoadPolicy", "addMembers", "removeMembers", "SavePolicy"})
            => gate = t /\ wlock[OrgOf(t)] = t

----------------------------------------------------------------------------
(* Claims on a rename to the same name (SpecEdit) *)

\* a RenameItemACL call whose old name is the item's name has returned nil
RenamedToItself ==
    /\ last.op = "RenameItemACL" /\ last.err = "nil"
    /\ last.call.oldName = GetName(last.call.item)

\* C37: RenameItemACL(item, oldName) with oldName equal to the item's name
\* leaves the persisted tuple set as it was: every tuple the item had before
\* the call is still there.
C37_SameNameRenameKeepsTuples ==
    RenamedToItself =>
        /\ OnItem(last.pre, last.call.item) \subseteq disk[TheOrg].p
        /\ disk[TheOrg].p = last.pre.p

----------------------------------------------------------------------------
(* Claims on the sentinel in a snapshot (SpecACL) *)

\* the subject of the sentinel tuples
SentinelName == <<DenyPrefix, "groups">>

\* C38: the snapshot GetItemACL returns for an item of kind groups lists
\* denyall##groups under no permission, neither as an actor nor as a group,
\* also when the policy holds the sentinel tuple that EditFromJSON adds to the
\* item.
C38_SentinelNeverListed ==
    (Snapshot /\ ContainerKind(last.call.item) = "groups") =>
        \A k \in DOMAIN last.res.acl :
            /\ ~Present(SentinelName, last.res.acl[k].Actors)
            /\ ~Present(SentinelName, last.res.acl[k].Groups)

----------------------------------------------------------------------------
(* Claims on whose tuples a snapshot lists (SpecACL) *)

\* the $$default$$ tuples of the policy before the call for the item's kind and
\* type (for a container of type containers: keyed by its name as well)
DefaultPart ==
    LET it == last.call.item IN
    {t \in last.pre.p :
        /\ t[condNamePos] = DefaultName
        /\ t[condKindPos] = ContainerKind(it)
        /\ \/ t[condSubkindPos] = ContainerType(it)
           \/ /\ ContainerKind(it) = "containers" /\ ContainerType(it) = "containers"
              /\ t[condSubkindPos] = GetName(it)}

\* C39: the snapshot GetItemACL returns lists under a permission, beside the
\* superuser, only subjects that an allow tuple names for that permission on
\* the item itself or on the $$default$$ of its kind and type: a subject whose
\* tuples are all on another item of the same kind and type is not listed.
C39_OnlyItemAndDefault ==
    Snapshot =>
        \A k \in DOMAIN last.res.acl :
            Listing(last.res.acl[k]) \ {Str(DefaultUser)}
                \subseteq Allowing(ItemPart \cup DefaultPart, k)

----------------------------------------------------------------------------
(* Claims on actors outside the organization (SpecCheck) *)

=============================================================================
